---- MODULE Spec2Model ----
(***************************************************************************)
(* A model of the terminal line-editing engine of mcp-feedback-terminal:   *)
(* the Cursor value type (cli/utils/cursor), the useDoublePress gesture    *)
(* debouncer, the useTextInput key dispatch, the TextInput paste           *)
(* coalescer and the App callbacks that own (feedback, cursorOffset).      *)
(*                                                                         *)
(* A string is a sequence of code units; a code unit is a one-character    *)
(* TLA+ string, except the control characters, which are named.            *)
(* Every handler runs to completion against the state committed by the     *)
(* previous handler (one render between two events).                       *)
(***************************************************************************)
EXTENDS Integers, Sequences, FiniteSets, TLC

VARIABLES
    clock,          \* Date.now(), in ms
    feedback,       \* App state.feedback: the text the host owns
    cursorOffset,   \* App state.cursorOffset: the offset the host owns
    wsOpen,         \* ws !== null && ws.readyState === WebSocket.OPEN
    exited,         \* process.exit(0) was called
    lastPressTime,  \* useDoublePress lastPressTime.current, per gesture site
    timeoutRef,     \* useDoublePress timeoutRef.current, per gesture site (0: null)
    pasteState,     \* TextInput pasteState {chunks, timeoutId, totalLength}
    timers,         \* the timers armed by setTimeout and not yet fired or cleared
    props,          \* the TextInput props the host passes (fixed over a run)
    session,        \* the feedback server: its clients and the pending getInteractiveFeedback
    fx,             \* the callbacks the last handler invoked, in order
    ev,             \* history: the event of the last step (observed specifications)
    log             \* history: the callbacks invoked so far (observed specifications)

vars == <<clock, feedback, cursorOffset, wsOpen, exited, lastPressTime,
          timeoutRef, pasteState, timers, props, session, fx, ev, log>>

-----------------------------------------------------------------------------
(* Code units *)

NL == "\n"
CR == "\r"
BSL == "\\"
ESC == "ESC"
BS == "BS"
DEL == "DEL"
TAB == "\t"

\* /\s/ restricted to the code units of the model
IsSpace(c) == c \in {" ", NL, CR, TAB}

Min(a, b) == IF a < b THEN a ELSE b
Max(a, b) == IF a > b THEN a ELSE b

\* String.prototype.slice(from, to): negative indexes count from the end
SliceIndex(s, i) == IF i < 0 THEN Max(Len(s) + i, 0) ELSE Min(i, Len(s))
Slice(s, from, to) ==
    LET a == SliceIndex(s, from)
        b == SliceIndex(s, to)
    IN  IF a >= b THEN <<>> ELSE SubSeq(s, a + 1, b)
SliceFrom(s, from) == Slice(s, from, Len(s))

\* s[i] ?? '' with a 0-based index
CharAt(s, i) == IF i >= 0 /\ i < Len(s) THEN s[i + 1] ELSE ""

\* String.prototype.split('\n'): the lines of s, at least one
RECURSIVE Split(_)
Split(s) ==
    IF \A i \in 1..Len(s) : s[i] # NL THEN <<s>>
    ELSE LET k == CHOOSE i \in 1..Len(s) : s[i] = NL /\ \A j \in 1..(i - 1) : s[j] # NL
         IN  <<SubSeq(s, 1, k - 1)>> \o Split(SubSeq(s, k + 1, Len(s)))

\* lines[i] ?? '' with a 0-based index
LineAt(lines, i) == IF i >= 0 /\ i < Len(lines) THEN lines[i + 1] ELSE <<>>

\* Array.prototype.join('')
RECURSIVE Join_reversed(_)
\* a join that concatenates the chunks last to first
Join_reversed(chunks) ==
    IF chunks = <<>> THEN <<>> ELSE Join_reversed(Tail(chunks)) \o Head(chunks)

RECURSIVE Join(_)
\* chunks.join('')
Join(chunks) == IF chunks = <<>> THEN <<>> ELSE Head(chunks) \o Join(Tail(chunks))

\* input.replace(/\r/g, '\n')
ReplaceCR(s) == [i \in 1..Len(s) |-> IF s[i] = CR THEN NL ELSE s[i]]

-----------------------------------------------------------------------------
(* Cursor: an immutable (text, columns, offset) value *)

Cursor(text, columns, offset) == [text |-> text, columns |-> columns, offset |-> offset]

fromText_noUpperClamp(text, columns, offset) == Cursor(text, columns, Max(0, offset))
fromText(text, columns, offset) ==
    Cursor(text, columns, Max(0, Min(offset, Len(text))))

equals(c, other) ==
    c.text = other.text /\ c.columns = other.columns /\ c.offset = other.offset

getLineColumn(c) ==
    LET lines == Split(Slice(c.text, 0, c.offset))
        lineIndex == Len(lines) - 1
    IN  [lineIndex |-> lineIndex, columnIndex |-> Len(LineAt(lines, lineIndex))]

RECURSIVE LineStartSum(_, _, _)
\* the for loop of getOffsetFromLineColumn, from index i
LineStartSum(lines, i, lineIndex) ==
    IF i < lineIndex /\ i < Len(lines)
    THEN Len(LineAt(lines, i)) + 1 + LineStartSum(lines, i + 1, lineIndex)
    ELSE 0

getOffsetFromLineColumn(c, lineIndex, columnIndex) ==
    LET lines == Split(c.text)
        offset == LineStartSum(lines, 0, lineIndex)
                  + Min(columnIndex, Len(LineAt(lines, lineIndex)))
    IN  Min(offset, Len(c.text))

left(c) == Cursor(c.text, c.columns, Max(0, c.offset - 1))

\* a right that goes to the end of the text
right_toEnd(c) == Cursor(c.text, c.columns, Len(c.text))

right(c) == Cursor(c.text, c.columns, Min(Len(c.text), c.offset + 1))

\* an up that moves one wrapped row up within the first line
up_wrapped(c) ==
    LET lines == Split(c.text)
        lc == getLineColumn(c)
    IN  IF lc.lineIndex = 0
        THEN IF c.offset >= c.columns THEN Cursor(c.text, c.columns, c.offset - c.columns)
             ELSE c
        ELSE LET prevLine == LineAt(lines, lc.lineIndex - 1)
                 newColumnIndex == Min(lc.columnIndex, Len(prevLine))
             IN  Cursor(c.text, c.columns,
                        getOffsetFromLineColumn(c, lc.lineIndex - 1, newColumnIndex))

up(c) ==
    LET lines == Split(c.text)
        lc == getLineColumn(c)
    IN  IF lc.lineIndex = 0 THEN c
        ELSE LET prevLine == LineAt(lines, lc.lineIndex - 1)
                 newColumnIndex == Min(lc.columnIndex, Len(prevLine))
             IN  Cursor(c.text, c.columns,
                        getOffsetFromLineColumn(c, lc.lineIndex - 1, newColumnIndex))

\* a down that goes to the start of the next line
down_toLineStart(c) ==
    LET lc == getLineColumn(c)
    IN  IF lc.lineIndex >= Len(Split(c.text)) - 1 THEN c
        ELSE Cursor(c.text, c.columns, getOffsetFromLineColumn(c, lc.lineIndex + 1, 0))

down(c) ==
    LET lines == Split(c.text)
        lc == getLineColumn(c)
    IN  IF lc.lineIndex >= Len(lines) - 1 THEN c
        ELSE LET nextLine == LineAt(lines, lc.lineIndex + 1)
                 newColumnIndex == Min(lc.columnIndex, Len(nextLine))
             IN  Cursor(c.text, c.columns,
                        getOffsetFromLineColumn(c, lc.lineIndex + 1, newColumnIndex))

\* a startOfLine that goes to the start of the text
startOfLine_toTextStart(c) == Cursor(c.text, c.columns, 0)

startOfLine(c) ==
    Cursor(c.text, c.columns, getOffsetFromLineColumn(c, getLineColumn(c).lineIndex, 0))

endOfLine(c) ==
    LET lineIndex == getLineColumn(c).lineIndex
        currentLine == LineAt(Split(c.text), lineIndex)
    IN  Cursor(c.text, c.columns, getOffsetFromLineColumn(c, lineIndex, Len(currentLine)))

RECURSIVE SkipBack(_, _, _)
\* while (newOffset > 0 && (/\s/.test(text[newOffset - 1]) = space)) newOffset--
SkipBack(text, newOffset, space) ==
    IF newOffset > 0 /\ (IsSpace(CharAt(text, newOffset - 1)) = space)
    THEN SkipBack(text, newOffset - 1, space)
    ELSE newOffset

RECURSIVE SkipForward(_, _, _)
\* while (newOffset < text.length && (/\s/.test(text[newOffset]) = space)) newOffset++
SkipForward(text, newOffset, space) ==
    IF newOffset < Len(text) /\ (IsSpace(CharAt(text, newOffset)) = space)
    THEN SkipForward(text, newOffset + 1, space)
    ELSE newOffset

prevWord(c) ==
    Cursor(c.text, c.columns, SkipBack(c.text, SkipBack(c.text, c.offset, TRUE), FALSE))

\* a nextWord that stops at the end of the word
nextWord_toWordEnd(c) == Cursor(c.text, c.columns, SkipForward(c.text, c.offset, FALSE))

nextWord(c) ==
    Cursor(c.text, c.columns,
           SkipForward(c.text, SkipForward(c.text, c.offset, FALSE), TRUE))

insert(c, str) ==
    Cursor(Slice(c.text, 0, c.offset) \o str \o SliceFrom(c.text, c.offset),
           c.columns, c.offset + Len(str))

\* a backspace that removes the character and keeps the offset
backspace_keepsOffset(c) ==
    IF c.offset = 0 THEN c
    ELSE Cursor(Slice(c.text, 0, c.offset - 1) \o SliceFrom(c.text, c.offset),
                c.columns, c.offset)

backspace(c) ==
    IF c.offset = 0 THEN c
    ELSE Cursor(Slice(c.text, 0, c.offset - 1) \o SliceFrom(c.text, c.offset),
                c.columns, c.offset - 1)

del(c) ==
    IF c.offset >= Len(c.text) THEN c
    ELSE Cursor(Slice(c.text, 0, c.offset) \o SliceFrom(c.text, c.offset + 1),
                c.columns, c.offset)

deleteToLineStart(c) ==
    LET lineStartOffset == getOffsetFromLineColumn(c, getLineColumn(c).lineIndex, 0)
    IN  Cursor(Slice(c.text, 0, lineStartOffset) \o SliceFrom(c.text, c.offset),
               c.columns, lineStartOffset)

\* a deleteToLineEnd that takes the newline with the rest of the line
deleteToLineEnd_withNewline(c) ==
    LET lineIndex == getLineColumn(c).lineIndex
        currentLine == LineAt(Split(c.text), lineIndex)
        lineEndOffset == getOffsetFromLineColumn(c, lineIndex, Len(currentLine))
    IN  Cursor(Slice(c.text, 0, c.offset) \o SliceFrom(c.text, lineEndOffset + 1),
               c.columns, c.offset)

deleteToLineEnd(c) ==
    LET lineIndex == getLineColumn(c).lineIndex
        currentLine == LineAt(Split(c.text), lineIndex)
        lineEndOffset == getOffsetFromLineColumn(c, lineIndex, Len(currentLine))
    IN  Cursor(Slice(c.text, 0, c.offset) \o SliceFrom(c.text, lineEndOffset),
               c.columns, c.offset)

\* a deleteWordBefore that keeps the offset
deleteWordBefore_keepsOffset(c) ==
    Cursor(Slice(c.text, 0, prevWord(c).offset) \o SliceFrom(c.text, c.offset),
           c.columns, c.offset)

deleteWordBefore(c) ==
    LET prevWordCursor == prevWord(c)
    IN  Cursor(Slice(c.text, 0, prevWordCursor.offset) \o SliceFrom(c.text, c.offset),
               c.columns, prevWordCursor.offset)

deleteWordAfter(c) ==
    LET nextWordCursor == nextWord(c)
    IN  Cursor(Slice(c.text, 0, c.offset) \o SliceFrom(c.text, nextWordCursor.offset),
               c.columns, c.offset)

-----------------------------------------------------------------------------
(* Key events and callback invocations *)

Flags == {"ctrl", "meta", "shift", "return", "escape", "tab", "backspace", "delete",
          "upArrow", "downArrow", "leftArrow", "rightArrow", "pageUp", "pageDown"}

\* the ink Key with exactly the flags of `on` set
Key(on) == [f \in Flags |-> f \in on]

\* Object spread {...key, backspace: true}
WithBackspace(key) == [key EXCEPT !["backspace"] = TRUE]

Gestures == {"ctrlC", "escape", "ctrlD"}
NoPress == "none"

\* one callback invocation: the callback, the gesture site it belongs to (or ""),
\* and its boolean, string and integer arguments (FALSE, <<>>, 0 when it has none)
Call(cb, site, show, text, offset) ==
    [cb |-> cb, site |-> site, show |-> show, text |-> text, offset |-> offset]

OnChange(text) == Call("onChange", "", FALSE, text, 0)
SetOffset(offset) == Call("onOffsetChange", "", FALSE, <<>>, offset)
OnSubmit(text) == Call("onSubmit", "", FALSE, text, 0)
OnPaste(text) == Call("onPaste", "", FALSE, text, 0)
OnExit == Call("onExit", "", FALSE, <<>>, 0)
OnExitMessage(show, site) == Call("onExitMessage", site, show, <<>>, 0)
OnMessage(show, site) == Call("onMessage", site, show, <<>>, 0)
OnHistoryUp == Call("onHistoryUp", "", FALSE, <<>>, 0)
OnHistoryDown == Call("onHistoryDown", "", FALSE, <<>>, 0)
OnHistoryReset == Call("onHistoryReset", "", FALSE, <<>>, 0)
OnImagePaste == Call("onImagePaste", "", FALSE, <<>>, 0)
\* the three callbacks of useDoublePress, as the hook invokes them
OnShowMessage(site, show) == Call("onShowMessage", site, show, <<>>, 0)
OnDoublePress(site) == Call("onDoublePress", site, FALSE, <<>>, 0)
OnSinglePress(site) == Call("onSinglePress", site, FALSE, <<>>, 0)

\* what a key handler returns: a MaybeCursor (has = FALSE: undefined), the
\* callbacks it invoked, and the gesture it pressed (NoPress: none)
Handled(cursor, calls, press) ==
    [has |-> TRUE, cursor |-> cursor, calls |-> calls, press |-> press]
Undefined(cursor, calls) ==
    [has |-> FALSE, cursor |-> cursor, calls |-> calls, press |-> NoPress]
Moved(cursor) == Handled(cursor, <<>>, NoPress)

-----------------------------------------------------------------------------
(* useTextInput: the key dispatch *)

IsBackspaceInput(input) == input \in {<<BS>>, <<DEL>>}

clear(cursor) == Handled(fromText(<<>>, cursor.columns, 0), <<SetOffset(0)>>, NoPress)

\* a ctrl+d that requests exit whatever the buffer holds
handleCtrlD_alwaysPress(cursor) == Handled(cursor, <<>>, "ctrlD")

handleCtrlD(cursor) ==
    IF cursor.text = <<>> THEN Handled(cursor, <<>>, "ctrlD")
    ELSE Moved(del(cursor))

\* clip: what getImageFromClipboard finds: "unsupported" (not darwin), "none", "image"
tryImagePaste(cursor, clip) ==
    CASE clip = "image" -> Handled(cursor, <<OnImagePaste>>, NoPress)
      [] clip = "none" -> Handled(cursor, <<OnMessage(TRUE, "clipboard")>>, NoPress)
      [] OTHER -> Moved(cursor)

\* an up arrow that always defers to the history
upOrHistoryUp_always(cursor, p) == Handled(cursor, <<OnHistoryUp>>, NoPress)

upOrHistoryUp(cursor, p) ==
    IF p.disableCursorMovementForUpDownKeys
    THEN Handled(cursor, <<OnHistoryUp>>, NoPress)
    ELSE LET cursorUp == up(cursor)
         IN  Handled(cursorUp, IF equals(cursorUp, cursor) THEN <<OnHistoryUp>> ELSE <<>>,
                     NoPress)

downOrHistoryDown(cursor, p) ==
    IF p.disableCursorMovementForUpDownKeys
    THEN Handled(cursor, <<OnHistoryDown>>, NoPress)
    ELSE LET cursorDown == down(cursor)
         IN  Handled(cursorDown,
                     IF equals(cursorDown, cursor) THEN <<OnHistoryDown>> ELSE <<>>,
                     NoPress)

handleCtrl(cursor, input, p, clip) ==
    CASE input = <<"a">> -> Moved(startOfLine(cursor))
      [] input = <<"b">> -> Moved(left(cursor))
      [] input = <<"c">> -> Handled(cursor, <<>>, "ctrlC")
      [] input = <<"d">> -> handleCtrlD(cursor)
      [] input = <<"e">> -> Moved(endOfLine(cursor))
      [] input = <<"f">> -> Moved(right(cursor))
      [] input = <<"h">> -> Moved(backspace(cursor))
      [] input = <<"k">> -> Moved(deleteToLineEnd(cursor))
      [] input = <<"l">> -> clear(cursor)
      [] input = <<"n">> -> downOrHistoryDown(cursor, p)
      [] input = <<"p">> -> upOrHistoryUp(cursor, p)
      [] input = <<"u">> -> Moved(deleteToLineStart(cursor))
      [] input = <<"v">> -> tryImagePaste(cursor, clip)
      [] input = <<"w">> -> Moved(deleteWordBefore(cursor))
      [] OTHER -> Undefined(cursor, <<>>)

\* a meta table whose default types the literal
handleMeta_typesOthers(cursor, input) ==
    CASE input = <<"b">> -> Moved(prevWord(cursor))
      [] input = <<"f">> -> Moved(nextWord(cursor))
      [] input = <<"d">> -> Moved(deleteWordAfter(cursor))
      [] OTHER -> Moved(insert(cursor, input))

handleMeta(cursor, input) ==
    CASE input = <<"b">> -> Moved(prevWord(cursor))
      [] input = <<"f">> -> Moved(nextWord(cursor))
      [] input = <<"d">> -> Moved(deleteWordAfter(cursor))
      [] OTHER -> Undefined(cursor, <<>>)

\* a handleEnter that looks at meta before the backslash
handleEnter_metaFirst(cursor, key, p) ==
    IF key["meta"] THEN Moved(insert(cursor, <<NL>>))
    ELSE IF p.multiline /\ cursor.offset > 0 /\ CharAt(cursor.text, cursor.offset - 1) = BSL
    THEN Moved(insert(backspace(cursor), <<NL>>))
    ELSE Undefined(cursor, <<OnSubmit(cursor.text)>>)

handleEnter(cursor, key, p) ==
    IF p.multiline /\ cursor.offset > 0 /\ CharAt(cursor.text, cursor.offset - 1) = BSL
    THEN Moved(insert(backspace(cursor), <<NL>>))
    ELSE IF key["meta"] THEN Moved(insert(cursor, <<NL>>))
    ELSE Undefined(cursor, <<OnSubmit(cursor.text)>>)

\* a fallback that inserts the literal as it arrived
mapLiteral_raw(cursor, input) ==
    CASE input \in {<<ESC, "[", "H">>, <<ESC, "[", "1", "~">>} -> Moved(startOfLine(cursor))
      [] input \in {<<ESC, "[", "F">>, <<ESC, "[", "4", "~">>} -> Moved(endOfLine(cursor))
      [] IsBackspaceInput(input) -> Moved(backspace(cursor))
      [] OTHER -> Moved(insert(cursor, input))

\* the literal fallback of mapKey
mapLiteral(cursor, input) ==
    CASE input \in {<<ESC, "[", "H">>, <<ESC, "[", "1", "~">>} -> Moved(startOfLine(cursor))
      [] input \in {<<ESC, "[", "F">>, <<ESC, "[", "4", "~">>} -> Moved(endOfLine(cursor))
      [] IsBackspaceInput(input) -> Moved(backspace(cursor))
      [] OTHER -> Moved(insert(cursor, ReplaceCR(input)))

\* a mapKey that looks at the meta table before the ctrl table
mapKey_metaBeforeCtrl(cursor, input, key, p, clip) ==
    IF key["backspace"] \/ key["delete"] THEN Moved(backspace(cursor))
    ELSE CASE key["return"] -> handleEnter(cursor, key, p)
           [] key["escape"] -> Handled(cursor, <<>>, "escape")
           [] key["leftArrow"] /\ (key["ctrl"] \/ key["meta"]) -> Moved(prevWord(cursor))
           [] key["rightArrow"] /\ (key["ctrl"] \/ key["meta"]) -> Moved(nextWord(cursor))
           [] key["meta"] -> handleMeta(cursor, input)
           [] key["ctrl"] -> handleCtrl(cursor, input, p, clip)
           [] key["pageDown"] -> Moved(endOfLine(cursor))
           [] key["pageUp"] -> Moved(startOfLine(cursor))
           [] key["tab"] -> Undefined(cursor, <<>>)
           [] key["upArrow"] -> upOrHistoryUp(cursor, p)
           [] key["downArrow"] -> downOrHistoryDown(cursor, p)
           [] key["leftArrow"] -> Moved(left(cursor))
           [] key["rightArrow"] -> Moved(right(cursor))
           [] OTHER -> mapLiteral(cursor, input)

mapKey(cursor, input, key, p, clip) ==
    IF key["backspace"] \/ key["delete"] THEN Moved(backspace(cursor))
    ELSE CASE key["return"] -> handleEnter(cursor, key, p)
           [] key["escape"] -> Handled(cursor, <<>>, "escape")
           [] key["leftArrow"] /\ (key["ctrl"] \/ key["meta"]) -> Moved(prevWord(cursor))
           [] key["rightArrow"] /\ (key["ctrl"] \/ key["meta"]) -> Moved(nextWord(cursor))
           [] key["ctrl"] -> handleCtrl(cursor, input, p, clip)
           [] key["pageDown"] -> Moved(endOfLine(cursor))
           [] key["pageUp"] -> Moved(startOfLine(cursor))
           [] key["meta"] -> handleMeta(cursor, input)
           [] key["tab"] -> Undefined(cursor, <<>>)
           [] key["upArrow"] -> upOrHistoryUp(cursor, p)
           [] key["downArrow"] -> downOrHistoryDown(cursor, p)
           [] key["leftArrow"] -> Moved(left(cursor))
           [] key["rightArrow"] -> Moved(right(cursor))
           [] OTHER -> mapLiteral(cursor, input)

\* a commit without the change check
Commit_always(cursor, nextCursor) ==
    <<SetOffset(nextCursor.offset), OnChange(nextCursor.text)>>

\* a check that commits the text or else the offset, never both
Commit_eitherOr(cursor, nextCursor) ==
    IF equals(cursor, nextCursor) THEN <<>>
    ELSE IF cursor.text # nextCursor.text THEN <<OnChange(nextCursor.text)>>
    ELSE <<SetOffset(nextCursor.offset)>>

\* the two-level change check of onInput
Commit(cursor, nextCursor) ==
    IF equals(cursor, nextCursor) THEN <<>>
    ELSE <<SetOffset(nextCursor.offset)>>
         \o (IF cursor.text # nextCursor.text THEN <<OnChange(nextCursor.text)>> ELSE <<>>)

\* the handler of mapKey returned r: commit its cursor, if it returned one
Mapped(cursor, r) ==
    [calls |-> r.calls \o (IF r.has THEN Commit(cursor, r.cursor) ELSE <<>>),
     press |-> r.press]

\* an onInput that looks at return before backspace and delete
onInput_returnFirst(cursor, input, key, p, clip) ==
    IF key["return"] THEN Mapped(cursor, handleEnter(cursor, key, p))
    ELSE IF key["backspace"] \/ key["delete"] \/ IsBackspaceInput(input)
    THEN [calls |-> Commit(cursor, backspace(cursor)), press |-> NoPress]
    ELSE Mapped(cursor, mapKey(cursor, input, key, p, clip))

\* nextCursor of onInput: what the handler of the key returned
nextCursor(cursor, input, key, p, clip) ==
    IF key["backspace"] \/ key["delete"] \/ IsBackspaceInput(input)
    THEN Moved(backspace(cursor))
    ELSE mapKey(cursor, input, key, p, clip)

\* onInput: the callbacks invoked, in order, and the gesture pressed
onInput(cursor, input, key, p, clip) ==
    IF key["backspace"] \/ key["delete"] \/ IsBackspaceInput(input)
    THEN [calls |-> Commit(cursor, backspace(cursor)), press |-> NoPress]
    ELSE Mapped(cursor, mapKey(cursor, input, key, p, clip))

-----------------------------------------------------------------------------
(* App: the host callbacks that own (feedback, cursorOffset) *)

Digits == {"0", "1", "2", "3", "4", "5", "6", "7", "8", "9"}

\* value.match(/^\/<letter>(\d+)$/)
IsDeleteCommand(value, letter) ==
    /\ Len(value) >= 3
    /\ value[1] = "/"
    /\ value[2] = letter
    /\ \A i \in 3..Len(value) : value[i] \in Digits

IsSlashCommand(value) ==
    \/ value = <<"/", "h", "e", "l", "p">>
    \/ value \in {<<"/", "p", "a", "s", "t", "e">>, <<"/", "i", "m", "g">>,
                  <<"/", "i", "m", "a", "g", "e">>}
    \/ IsDeleteCommand(value, "d")
    \/ IsDeleteCommand(value, "i")

\* host: [feedback, cursorOffset, exited]; open: the socket is open in this render
handleSubmit(host, value, open) ==
    IF ~open THEN host
    ELSE IF IsSlashCommand(value) THEN [host EXCEPT !.feedback = <<>>]
    ELSE [host EXCEPT !.feedback = <<>>, !.cursorOffset = 0]

handleInputChange(host, value) == [host EXCEPT !.feedback = value]

onChangeCursorOffset(host, offset) == [host EXCEPT !.cursorOffset = offset]

handleExit(host) == [host EXCEPT !.exited = TRUE]

\* the host's implementation of one callback; nothing runs after process.exit
ApplyCall(host, call, open) ==
    IF host.exited THEN host
    ELSE CASE call.cb = "onChange" -> handleInputChange(host, call.text)
           [] call.cb = "onOffsetChange" -> onChangeCursorOffset(host, call.offset)
           [] call.cb = "onSubmit" -> handleSubmit(host, call.text, open)
           [] call.cb = "onExit" -> handleExit(host)
           [] OTHER -> host

RECURSIVE ApplyCalls(_, _, _)
ApplyCalls(host, calls, open) ==
    IF calls = <<>> THEN host
    ELSE ApplyCalls(ApplyCall(host, Head(calls), open), Tail(calls), open)

Host == [feedback |-> feedback, cursorOffset |-> cursorOffset, exited |-> exited]

\* the state the host commits after a handler that invoked `calls`
HostCommits(calls) ==
    LET h == ApplyCalls(Host, calls, wsOpen)
    IN  /\ feedback' = h.feedback
        /\ cursorOffset' = h.cursorOffset
        /\ exited' = h.exited

-----------------------------------------------------------------------------
(* Timers *)

Timeout == 800
PasteDelay == 50
PasteThreshold == 20

\* a pending timer: its handle, its owner (a gesture site or "paste"), the clock
\* value it is due at, and originalValue !== '' in the render that armed it
Timer(id, owner, deadline, nonEmpty) ==
    [id |-> id, owner |-> owner, deadline |-> deadline, nonEmpty |-> nonEmpty]

\* a clearTimeout that cancels nothing
clearTimeout_keeps(pending, owner, id) == pending

\* clearTimeout(handle): a handle is (owner, id)
clearTimeout(pending, owner, id) == {t \in pending : ~(t.owner = owner /\ t.id = id)}

\* the reference the owner keeps to its timer (0: null)
TimerRef(owner) == IF owner = "paste" THEN pasteState.timeoutId ELSE timeoutRef[owner]

\* setTimeout returns a handle no pending timer has and no reference holds
FreshTimerId(owner) ==
    LET used == {t.id : t \in {u \in timers : u.owner = owner}} \cup {TimerRef(owner)}
    IN  CHOOSE n \in 1..(Cardinality(used) + 1) : n \notin used

-----------------------------------------------------------------------------
(* useDoublePress, at its three sites in useTextInput *)

\* onShowMessage of site g, in a render where originalValue !== '' is nonEmpty
ShowCalls(g, show, nonEmpty) ==
    <<OnShowMessage(g, show)>>
    \o (CASE g = "ctrlC" -> <<OnExitMessage(show, "ctrlC")>>
          [] g = "escape" -> <<OnMessage(nonEmpty /\ show, "escape")>>
          [] g = "ctrlD" -> <<OnExitMessage(show, "ctrlD")>>)

\* an onDoublePress of escape that clears without looking at the buffer
DoubleCalls_alwaysClear(g, nonEmpty) ==
    <<OnDoublePress(g)>>
    \o (IF g = "escape" THEN <<OnChange(<<>>), SetOffset(0)>> ELSE <<OnExit>>)

\* onDoublePress?.()
DoubleCalls(g, nonEmpty) ==
    <<OnDoublePress(g)>>
    \o (CASE g = "ctrlC" -> <<OnExit>>
          [] g = "escape" -> IF nonEmpty THEN <<OnChange(<<>>), SetOffset(0)>> ELSE <<>>
          [] g = "ctrlD" -> <<OnExit>>)

\* an onSinglePress that looks at the buffer when the timer fires
SingleCalls_atExpiry(g, nonEmpty) ==
    IF g = "ctrlC"
    THEN <<OnSinglePress(g)>>
         \o (IF feedback # <<>> THEN <<OnChange(<<>>), SetOffset(0), OnHistoryReset>>
             ELSE <<>>)
    ELSE <<>>

\* onSinglePress?.(): only the ctrl+c site passes one
SingleCalls(g, nonEmpty) ==
    IF g = "ctrlC"
    THEN <<OnSinglePress(g)>>
         \o (IF nonEmpty THEN <<OnChange(<<>>), SetOffset(0), OnHistoryReset>> ELSE <<>>)
    ELSE <<>>

\* a timer callback that calls onSinglePress before it hides the message
SinglePressCalls_singleFirst(g, nonEmpty) ==
    SingleCalls(g, nonEmpty) \o ShowCalls(g, FALSE, nonEmpty)

\* a timer callback that shows the message again instead of hiding it
SinglePressCalls_showsAgain(g, nonEmpty) ==
    ShowCalls(g, TRUE, nonEmpty) \o SingleCalls(g, nonEmpty)

\* the timer callback armed by a first press
SinglePressCalls(g, nonEmpty) == ShowCalls(g, FALSE, nonEmpty) \o SingleCalls(g, nonEmpty)

\* a debouncer that never detects a double press
IsDoublePress_never(now, last) == FALSE

\* a comparison that takes a press exactly Timeout later for a double press
IsDoublePress_inclusive(now, last) == now - last <= Timeout

IsDoublePress(now, last) == now - last < Timeout

\* a double press that keeps the time of the first press
ResetLastPress_kept(last) == last

\* lastPressTime.current = 0, to prevent a triple press
ResetLastPress(last) == 0

\* one lastPressTime ref shared by the three sites
LastPress_shared(g) ==
    Max(lastPressTime["ctrlC"], Max(lastPressTime["escape"], lastPressTime["ctrlD"]))

\* lastPressTime.current of the useDoublePress instance of site g
LastPress(g) == lastPressTime[g]

\* the callback useDoublePress returns, for site g: the new refs, the pending
\* timers and the callbacks invoked
press(g) ==
    LET now == clock
        nonEmpty == feedback # <<>>
        cleared == IF timeoutRef[g] # 0 THEN clearTimeout(timers, g, timeoutRef[g])
                   ELSE timers
    IN  IF IsDoublePress(now, LastPress(g))
        THEN [last |-> [lastPressTime EXCEPT ![g] = ResetLastPress(@)],
              ref |-> [timeoutRef EXCEPT ![g] = 0],
              pending |-> cleared,
              calls |-> ShowCalls(g, FALSE, nonEmpty) \o DoubleCalls(g, nonEmpty)]
        ELSE LET id == FreshTimerId(g)
             IN  [last |-> [lastPressTime EXCEPT ![g] = now],
                  ref |-> [timeoutRef EXCEPT ![g] = id],
                  pending |-> cleared \cup {Timer(id, g, now + Timeout, nonEmpty)},
                  calls |-> ShowCalls(g, TRUE, nonEmpty)]

\* no gesture was pressed
NoPressResult ==
    [last |-> lastPressTime, ref |-> timeoutRef, pending |-> timers, calls |-> <<>>]

-----------------------------------------------------------------------------
(* TextInput: the paste coalescer in front of onInput *)

StartsWithQuoteSlash(input) == Len(input) >= 2 /\ input[1] = "'" /\ input[2] = "/"

\* a rule that buffers every chunk
IsPasteChunk_always(input) == TRUE

\* a rule that buffers from the threshold on
IsPasteChunk_fromThreshold(input) ==
    Len(input) >= PasteThreshold \/ pasteState.timeoutId # 0 \/ StartsWithQuoteSlash(input)

\* a coalescer that lets no chunk bypass it
IsEditChunk_never(input, key) == FALSE

\* key.backspace || key.delete || input === '\b' || input === '\x7f' || input === '\x08'
IsEditChunk(input, key) == key["backspace"] \/ key["delete"] \/ IsBackspaceInput(input)

\* a rule that looks at the chunk alone, not at the open buffer
IsPasteChunk_chunkOnly(input) == Len(input) > PasteThreshold \/ StartsWithQuoteSlash(input)

\* input.length > 20 || pasteState.timeoutId || input.startsWith("'/")
IsPasteChunk(input) ==
    Len(input) > PasteThreshold \/ pasteState.timeoutId # 0 \/ StartsWithQuoteSlash(input)

RECURSIVE SumLen(_)
\* chunks.reduce((sum, chunk) => sum + chunk.length, 0)
SumLen(chunks) == IF chunks = <<>> THEN 0 ELSE Len(Head(chunks)) + SumLen(Tail(chunks))

\* a resetPasteTimeout that arms without cancelling
resetPasteTimeout_noCancel(currentTimeoutId) ==
    LET id == FreshTimerId("paste")
    IN  [pending |-> timers \cup {Timer(id, "paste", clock + PasteDelay, FALSE)},
         id |-> id]

\* resetPasteTimeout(currentTimeoutId): the pending timers and the new handle
resetPasteTimeout(currentTimeoutId) ==
    LET cleared == IF currentTimeoutId # 0
                   THEN clearTimeout(timers, "paste", currentTimeoutId)
                   ELSE timers
        id == FreshTimerId("paste")
    IN  [pending |-> cleared \cup {Timer(id, "paste", clock + PasteDelay, FALSE)},
         id |-> id]

\* the cursor of this render
RenderCursor == fromText(feedback, props.columns, cursorOffset)

\* the handler invoked `calls` and left the gesture refs and timers as in pr
Committed(pr, calls) ==
    /\ HostCommits(calls)
    /\ fx' = calls
    /\ lastPressTime' = pr.last
    /\ timeoutRef' = pr.ref
    /\ timers' = pr.pending
    /\ UNCHANGED pasteState

Pressed(r, pr) == Committed(pr, pr.calls \o r.calls)

\* the chunk went to onInput, which returned r
Dispatched(r) == Pressed(r, IF r.press = NoPress THEN NoPressResult ELSE press(r.press))

\* a setPasteState that counts the new chunk alone
Buffered_countsChunk(input, rt) ==
    /\ pasteState' = [chunks |-> Append(pasteState.chunks, input),
                      timeoutId |-> rt.id,
                      totalLength |-> Len(input)]
    /\ timers' = rt.pending
    /\ fx' = <<>>
    /\ UNCHANGED <<feedback, cursorOffset, exited, lastPressTime, timeoutRef>>

\* setPasteState(({chunks, timeoutId}) => ...), rt being resetPasteTimeout(timeoutId)
Buffered(input, rt) ==
    /\ pasteState' = [chunks |-> Append(pasteState.chunks, input),
                      timeoutId |-> rt.id,
                      totalLength |-> SumLen(pasteState.chunks) + Len(input)]
    /\ timers' = rt.pending
    /\ fx' = <<>>
    /\ UNCHANGED <<feedback, cursorOffset, exited, lastPressTime, timeoutRef>>

\* wrappedOnInput(input, key): one raw chunk from the terminal
wrappedOnInput(input, key, clip) ==
    /\ ~exited
    /\ IF IsEditChunk(input, key)
       THEN Dispatched(onInput(RenderCursor, input, WithBackspace(key), props, clip))
       ELSE IF IsPasteChunk(input)
       THEN Buffered(input, resetPasteTimeout(pasteState.timeoutId))
       ELSE Dispatched(onInput(RenderCursor, input, key, props, clip))
    /\ UNCHANGED <<clock, wsOpen, props>>

\* the timer armed by a first press of gesture site t.owner fires
SinglePressTimeout(t) ==
    /\ ~exited
    /\ t \in timers /\ t.owner \in Gestures
    /\ clock >= t.deadline
    /\ LET calls == SinglePressCalls(t.owner, t.nonEmpty)
       IN  /\ HostCommits(calls)
           /\ fx' = calls
    /\ timeoutRef' = [timeoutRef EXCEPT ![t.owner] = 0]
    /\ timers' = timers \ {t}
    /\ UNCHANGED <<clock, wsOpen, lastPressTime, pasteState, props>>

\* the quiet-period timer armed by resetPasteTimeout fires
PasteTimeout(t) ==
    /\ ~exited
    /\ t \in timers /\ t.owner = "paste"
    /\ clock >= t.deadline
    /\ fx' = <<OnPaste(Join(pasteState.chunks))>>
    /\ pasteState' = [chunks |-> <<>>, timeoutId |-> 0, totalLength |-> 0]
    /\ timers' = timers \ {t}
    /\ UNCHANGED <<clock, feedback, cursorOffset, wsOpen, exited, lastPressTime,
                   timeoutRef, props>>

-----------------------------------------------------------------------------
(* The environment: time and the socket *)

\* time passes by up to d ms, and no later than the next pending timer is due
Tick(d) ==
    /\ ~exited
    /\ LET due == {t.deadline : t \in timers}
           next == IF \E x \in due : x < clock + d
                   THEN CHOOSE x \in due : \A y \in due : x <= y
                   ELSE clock + d
       IN  /\ next > clock
           /\ clock' = next
    /\ fx' = <<>>
    /\ UNCHANGED <<feedback, cursorOffset, wsOpen, exited, lastPressTime, timeoutRef,
                   pasteState, timers, props>>

\* websocket 'open' / 'close'
WsOpen ==
    /\ ~exited /\ ~wsOpen
    /\ wsOpen' = TRUE
    /\ fx' = <<>>
    /\ UNCHANGED <<clock, feedback, cursorOffset, exited, lastPressTime, timeoutRef,
                   pasteState, timers, props>>

WsClose ==
    /\ ~exited /\ wsOpen
    /\ wsOpen' = FALSE
    /\ fx' = <<>>
    /\ UNCHANGED <<clock, feedback, cursorOffset, exited, lastPressTime, timeoutRef,
                   pasteState, timers, props>>

\* websocket 'message' of type summary: a new prompt resets the input
SummaryMessage ==
    /\ ~exited /\ wsOpen
    /\ feedback' = <<>>
    /\ cursorOffset' = 0
    /\ fx' = <<>>
    /\ UNCHANGED <<clock, wsOpen, exited, lastPressTime, timeoutRef, pasteState,
                   timers, props>>

-----------------------------------------------------------------------------
(* feedbackServer: getInteractiveFeedback and the websocket clients of the    *)
(* server. A message event comes from a client in wss.clients whose socket is *)
(* OPEN (the server closes sockets only in stopFeedbackServer, which the      *)
(* process calls just before it exits), so messageHandler always finds an     *)
(* open client to answer.                                                     *)

DefaultFeedbackTimeout == 600000

ParseError == [error |-> "SyntaxError"]

\* JSON.parse(message.toString()) on the messages of the model
JsonParse(message) ==
    CASE message = "{\"interactive_feedback\":\"a\"}" -> [interactive_feedback |-> "a"]
      [] message = "{\"interactive_feedback\":\"b\"}" -> [interactive_feedback |-> "b"]
      [] message = "null" -> [null |-> TRUE]
      [] OTHER -> ParseError

\* the server before getInteractiveFeedback is called: isServerRunning && globalWss,
\* and the open sockets of globalWss.clients
Server(running, clients) ==
    [running |-> running, clients |-> clients, phase |-> "idle", result |-> "",
     resolves |-> 0, rejects |-> 0, feedbackReceived |-> FALSE,
     clientConnected |-> FALSE, listening |-> {}, onConnection |-> FALSE,
     timeout |-> 0, calledAt |-> 0, heard |-> <<>>, errorsSent |-> 0]

\* resolve(value) / reject(error): the promise keeps its first settlement
resolve(s, value) ==
    [s EXCEPT !.resolves = @ + 1,
              !.phase = IF s.phase = "waiting" THEN "resolved" ELSE @,
              !.result = IF s.phase = "waiting" THEN value ELSE @]

reject(s, error) ==
    [s EXCEPT !.rejects = @ + 1,
              !.phase = IF s.phase = "waiting" THEN "rejected" ELSE @,
              !.result = IF s.phase = "waiting" THEN error ELSE @]

\* a cleanup that leaves the listeners in place
cleanup_keepsListeners(s) == s

\* cleanup(): remove connectionHandler from the server and messageHandler from
\* every client
cleanup(s) == [s EXCEPT !.onConnection = FALSE, !.listening = {}]

\* handleMessage(ws, message); the caller clears the timeout when feedbackReceived
\* becomes true
handleMessage(s, message) ==
    IF s.feedbackReceived THEN s
    ELSE IF JsonParse(message) # ParseError
    THEN resolve(cleanup([s EXCEPT !.feedbackReceived = TRUE]), JsonParse(message))
    ELSE [s EXCEPT !.errorsSent = @ + 1]

\* the steps of the server leave the terminal client's variables alone
ServerStep ==
    /\ fx' = <<>>
    /\ UNCHANGED <<clock, feedback, cursorOffset, wsOpen, exited, lastPressTime,
                   timeoutRef, pasteState, props, ev, log>>

FeedbackTimer(s) == Timer(1, "feedback", s.calledAt + s.timeout, FALSE)

\* getInteractiveFeedback({summary, timeout})
getInteractiveFeedback(timeout) ==
    /\ session.phase = "idle"
    /\ LET called == [session EXCEPT !.phase = "waiting", !.timeout = timeout,
                                     !.calledAt = clock]
       IN  IF ~session.running
           THEN /\ session' = reject(called, "Feedback server is not running")
                /\ UNCHANGED timers
           ELSE /\ timers' = timers \cup {FeedbackTimer(called)}
                /\ session' =
                      IF session.clients # {}
                      THEN [called EXCEPT !.clientConnected = TRUE,
                                          !.listening = session.clients]
                      ELSE [called EXCEPT !.onConnection = TRUE]
    /\ ServerStep

\* the callback of setTimeout(..., timeout)
FeedbackTimeout(t) ==
    /\ t \in timers /\ t.owner = "feedback"
    /\ clock >= t.deadline
    /\ timers' = timers \ {t}
    /\ session' =
          IF session.feedbackReceived THEN session
          ELSE reject(cleanup(session),
                      IF session.clientConnected THEN "Client connected but no feedback received"
                      ELSE "No client connected within the timeout period")
    /\ ServerStep

\* wss 'connection': a client connects; connectionHandler runs if it is registered
ClientConnects(c) ==
    /\ session.phase # "none" /\ session.running
    /\ c \notin session.clients
    /\ session' =
          IF session.onConnection
          THEN [session EXCEPT !.clients = @ \cup {c}, !.clientConnected = TRUE,
                               !.listening = @ \cup {c}]
          ELSE [session EXCEPT !.clients = @ \cup {c}]
    /\ UNCHANGED timers
    /\ ServerStep

\* the socket of client c closes: it leaves wss.clients
ClientDisconnects(c) ==
    /\ session.phase # "none"
    /\ c \in session.clients
    /\ session' = [session EXCEPT !.clients = @ \ {c}, !.listening = @ \ {c}]
    /\ UNCHANGED timers
    /\ ServerStep

\* ws 'message' on the socket of client c: messageHandler runs if it is attached
ClientMessage(c, message) ==
    /\ session.phase # "none"
    /\ c \in session.clients
    /\ LET listened == c \in session.listening
           told == [session EXCEPT !.heard = Append(@, [message |-> message,
                                                         listened |-> listened,
                                                         at |-> clock])]
           handled == IF listened THEN handleMessage(told, message) ELSE told
       IN  /\ session' = handled
           /\ timers' = IF handled.feedbackReceived /\ ~session.feedbackReceived
                        THEN clearTimeout(timers, "feedback", 1)
                        ELSE timers
    /\ ServerStep

-----------------------------------------------------------------------------
(* Bounds and inputs *)

StartClock == 800       \* Date.now() when the component mounts
MaxClockAdvance == 850  \* the run is followed for this many ms
MaxLen == 2             \* typed text grows to this length
MaxBuffered == 2        \* chunks held by the paste buffer

MaxClock == StartClock + MaxClockAdvance

\* App renders <TextInput multiline={true} columns={process.stdout.columns || 80} />
AppProps == [multiline |-> TRUE, disableCursorMovementForUpDownKeys |-> FALSE,
             columns |-> 80]

Plain == Key({})
Ctrl == Key({"ctrl"})
Meta == Key({"meta"})

DeleteCommand == <<"/", "d", "1">>
QuoteSlashChunk == <<"'", "/">>
LongChunk == [i \in 1..(PasteThreshold + 1) |-> "x"]

\* a key event: the literal, the key flags, and what the clipboard holds
Event(input, key) ==
    [kind |-> "key", input |-> input, key |-> key, clip |-> "unsupported", at |-> 0]

\* any other handler: timer callbacks (kind is the owner of the timer)
Step(kind) == [kind |-> kind, input |-> <<>>, key |-> Plain, clip |-> "", at |-> 0]

TypedEvents == {Event(<<"a">>, Plain), Event(DeleteCommand, Plain)}

EditEvents == {Event(<<>>, Key({"backspace"}))}

ChordEvents ==
    {Event(<<c>>, Ctrl) : c \in {"c", "l"}}
    \cup {[Event(<<"v">>, Ctrl) EXCEPT !.clip = "image"]}

NavigationEvents ==
    {Event(<<>>, Key({f})) : f \in {"leftArrow", "upArrow", "escape"}}
    \cup {Event(<<CR>>, Key({"return"})), Event(<<CR>>, Key({"return", "meta"}))}

KeyEvents == TypedEvents \cup EditEvents \cup ChordEvents \cup NavigationEvents

\* the terminal client: no feedback server runs in its process
NoSession == [phase |-> "none"]

\* the text bound: typing stops at MaxLen, except a slash command arriving as one chunk
TextBounded ==
    \/ Len(feedback') <= MaxLen
    \/ Len(feedback') <= Len(feedback)
    \/ feedback = <<>> /\ IsSlashCommand(feedback')

-----------------------------------------------------------------------------
(* The program: TextInput mounted in App *)

Init ==
    /\ clock = StartClock
    /\ feedback = <<>>
    /\ cursorOffset = 0
    /\ wsOpen = FALSE
    /\ exited = FALSE
    /\ lastPressTime = [g \in Gestures |-> 0]
    /\ timeoutRef = [g \in Gestures |-> 0]
    /\ pasteState = [chunks |-> <<>>, timeoutId |-> 0, totalLength |-> 0]
    /\ timers = {}
    /\ props = AppProps
    /\ session = NoSession
    /\ fx = <<>>
    /\ ev = Step("init")
    /\ log = <<>>

\* a key event reaches wrappedOnInput; e.clip is what ctrl+v would find
KeyInput(e) ==
    /\ wrappedOnInput(e.input, e.key, e.clip)
    /\ TextBounded
    /\ Len(pasteState'.chunks) <= MaxBuffered

TimePasses(d) == Tick(d) /\ clock' <= MaxClock

\* the history variables: left alone; or ev recording the event of the handler
\* that ran last; or ev recording Date.now() as well; or log recording every
\* handler that ran and the callbacks it invoked
Unobserved == UNCHANGED <<ev, log, session>>
Noted(e) == ev' = e /\ UNCHANGED <<log, session>>
Ran(e) == [e EXCEPT !.at = clock]
Observed(e) == ev' = Ran(e) /\ UNCHANGED <<log, session>>
Traced(e) ==
    /\ ev' = Ran(e)
    /\ log' = Append(log, [ev |-> Ran(e), calls |-> fx'])
    /\ UNCHANGED session

Next ==
    \/ \E e \in KeyEvents : KeyInput(e) /\ Unobserved
    \/ \E t \in timers : SinglePressTimeout(t) /\ Unobserved
    \/ TimePasses(Timeout) /\ Unobserved
    \/ WsOpen /\ Unobserved
    \/ WsClose /\ Unobserved
    \/ SummaryMessage /\ Unobserved

Spec == Init /\ [][Next]_vars

-----------------------------------------------------------------------------
(* The two timer owners together: the gesture sites and the paste coalescer *)

MaxTimersAdvance == 800   \* SpecTimers follows the run for this many ms
MaxActiveSites == 1       \* with this many gesture sites waiting for a second press

\* the text stays empty: ctrl+d is always a gesture
TimersEvents ==
    {Event(<<>>, Key({"backspace"})), Event(<<"c">>, Ctrl), Event(<<"d">>, Ctrl),
     Event(<<>>, Key({"escape"})), Event(LongChunk, Plain)}

TimersInput(e) ==
    /\ KeyInput(e)
    /\ feedback' = <<>>
    /\ Cardinality({g \in Gestures : timeoutRef'[g] # 0}) <= MaxActiveSites

NextTimers ==
    \/ \E e \in TimersEvents : TimersInput(e) /\ Noted(e)
    \/ \E t \in timers : SinglePressTimeout(t) /\ Noted(Step(t.owner))
    \/ \E t \in timers : PasteTimeout(t) /\ Noted(Step(t.owner))
    \/ Tick(Timeout) /\ clock' <= StartClock + MaxTimersAdvance /\ Unobserved

SpecTimers == Init /\ [][NextTimers]_vars

-----------------------------------------------------------------------------
(* The paste coalescer alone, with the history of its handlers *)

BurstGap == 10            \* chunks of a burst arrive this many ms apart
MaxPasteAdvance == 60     \* SpecPaste follows the run for this many ms
MaxPasteLen == 25         \* and lets the text grow to this length

ShortChunk == [i \in 1..5 |-> "s"]
ExactChunk == [i \in 1..PasteThreshold |-> "s"]
Chunk25 == [i \in 1..25 |-> "x"]

PasteChunks ==
    {Event(ShortChunk, Plain), Event(ExactChunk, Plain), Event(Chunk25, Plain),
     Event(QuoteSlashChunk, Plain), Event(<<>>, Key({"delete"})), Event(<<DEL>>, Plain)}

PasteInput(e) ==
    /\ wrappedOnInput(e.input, e.key, e.clip)
    /\ Len(feedback') <= MaxPasteLen
    /\ Len(pasteState'.chunks) <= MaxBuffered

NextPaste ==
    \/ \E e \in PasteChunks : PasteInput(e) /\ Observed(e)
    \/ \E t \in timers : PasteTimeout(t) /\ Observed(Step(t.owner))
    \/ \E d \in {BurstGap, PasteDelay} :
          Tick(d) /\ clock' <= StartClock + MaxPasteAdvance /\ Unobserved

SpecPaste == Init /\ [][NextPaste]_vars

-----------------------------------------------------------------------------
(* The gesture debouncers alone, with the history of their presses and timers *)

MaxDebounceAdvance == 900   \* SpecDebounce follows the run for this many ms
MaxDebounceRuns == 4        \* and for this many presses and timer callbacks
MaxDebounceLen == 1         \* and lets the text grow to this length

DebounceEvents ==
    {Event(<<"a">>, Plain), Event(<<"c">>, Ctrl), Event(<<"d">>, Ctrl),
     Event(<<>>, Key({"escape"}))}

\* the handler called press(): every site reports through onShowMessage first
IsPress(calls) == calls # <<>> /\ Head(calls).cb = "onShowMessage"

DebounceInput(e) ==
    /\ KeyInput(e)
    /\ Len(feedback') <= MaxDebounceLen
    /\ IF IsPress(fx') THEN Traced(e) /\ Len(log') <= MaxDebounceRuns ELSE Observed(e)

NextDebounce ==
    \/ \E e \in DebounceEvents : DebounceInput(e)
    \/ \E t \in timers :
          SinglePressTimeout(t) /\ Traced(Step(t.owner)) /\ Len(log') <= MaxDebounceRuns
    \/ \E d \in {300, 500} :
          Tick(d) /\ clock' <= StartClock + MaxDebounceAdvance /\ Unobserved

SpecDebounce == Init /\ [][NextDebounce]_vars

-----------------------------------------------------------------------------
(* Properties *)

InRange(c) == 0 <= c.offset /\ c.offset <= Len(c.text)

\* the operations of the Cursor class, by name; insert with each string of Inserted
CursorOps ==
    {"left", "right", "up", "down", "startOfLine", "endOfLine", "prevWord", "nextWord",
     "backspace", "del", "deleteToLineStart", "deleteToLineEnd", "deleteWordBefore",
     "deleteWordAfter"}

Inserted == {<<"a">>, <<NL>>, DeleteCommand, <<>>}

CursorOp(op, c) ==
    CASE op = "left" -> left(c)
      [] op = "right" -> right(c)
      [] op = "up" -> up(c)
      [] op = "down" -> down(c)
      [] op = "startOfLine" -> startOfLine(c)
      [] op = "endOfLine" -> endOfLine(c)
      [] op = "prevWord" -> prevWord(c)
      [] op = "nextWord" -> nextWord(c)
      [] op = "backspace" -> backspace(c)
      [] op = "del" -> del(c)
      [] op = "deleteToLineStart" -> deleteToLineStart(c)
      [] op = "deleteToLineEnd" -> deleteToLineEnd(c)
      [] op = "deleteWordBefore" -> deleteWordBefore(c)
      [] op = "deleteWordAfter" -> deleteWordAfter(c)

\* C1: in every reachable state the cursor the engine works on, built by fromText
\* from the host's value and offset, has 0 <= offset <= length(text), also when the
\* host's offset is out of range; and every Cursor operation applied to it returns
\* a cursor that is in range.
C1_CursorInRange ==
    /\ InRange(RenderCursor)
    /\ RenderCursor.offset = Max(0, Min(cursorOffset, Len(feedback)))
    /\ \A op \in CursorOps : InRange(CursorOp(op, RenderCursor))
    /\ \A str \in Inserted : InRange(insert(RenderCursor, str))

\* the host holds an offset beyond the end of its text, and the engine's cursor is
\* clamped to the end
C1_Witness ==
    /\ cursorOffset > Len(feedback)
    /\ RenderCursor.offset = Len(feedback)

TimerOwners == Gestures \cup {"paste"}

Pending(pending, owner) == {t \in pending : t.owner = owner}

\* C4: each gesture debouncer and the paste coalescer has at most one pending
\* timer at any time, after any interleaving of presses, chunk arrivals and timer
\* firings; and the pending timer is the one its owner holds the handle of.
C4_AtMostOnePendingTimer ==
    \A o \in TimerOwners :
        /\ Cardinality(Pending(timers, o)) <= 1
        /\ \A t \in Pending(timers, o) : t.id = TimerRef(o)

\* the coalescer re-armed its timer while one was pending (the handle is the
\* second one), and a gesture site is waiting for its second press
C4_Witness ==
    /\ \E t \in Pending(timers, "paste") : t.id = 2
    /\ \E g \in Gestures : Pending(timers, g) # {}

\* the step is a key event handled by wrappedOnInput
KeyStep == ev'.kind = "key" /\ clock' = clock

\* the chunk signals backspace/delete
IsBackspaceChunk(e) == e.key["backspace"] \/ e.key["delete"] \/ IsBackspaceInput(e.input)

\* the step called press() of site g: a first press shows the message, a double
\* press calls onDoublePress
PressStep(g) ==
    /\ KeyStep
    /\ \E i \in DOMAIN fx' : fx'[i] \in {OnShowMessage(g, TRUE), OnDoublePress(g)}

\* the step appended the chunk to the paste buffer
BufferedStep == KeyStep /\ pasteState'.chunks = Append(pasteState.chunks, ev'.input)

\* every timer the owner had armed before the step is gone after it
Cancelled(owner) == Pending(timers, owner) \cap Pending(timers', owner) = {}

\* C5 (as amended): every press() of a debouncer first cancels the timer armed
\* for that site, and every chunk the coalescer buffers first cancels the timer
\* armed for the buffer, before a new one is armed; a chunk that signals
\* backspace/delete is forwarded without touching the coalescer's timer, and any
\* other forwarded chunk arrives when the coalescer has no timer.
C5_CancelThenArm ==
    [][/\ \A g \in Gestures : PressStep(g) => Cancelled(g)
       /\ BufferedStep => Cancelled("paste") /\ Cardinality(Pending(timers', "paste")) = 1
       /\ KeyStep /\ IsBackspaceChunk(ev') =>
             Pending(timers', "paste") = Pending(timers, "paste")
       /\ KeyStep /\ ~IsBackspaceChunk(ev') /\ ~BufferedStep =>
             Pending(timers, "paste") = {} /\ Pending(timers', "paste") = {}]_vars

\* a backspace chunk was the last to arrive, and the timer the coalescer had
\* re-armed before it is still pending
C5_Witness ==
    /\ ev.kind = "key" /\ IsBackspaceChunk(ev)
    /\ \E t \in Pending(timers, "paste") : t.id = 2

\* C5 as stated: every press() and every chunk arrival, backspace/delete chunks
\* and forwarded chunks included, cancels the timer armed for its instance.
C5_EveryArrivalCancels ==
    [][/\ \A g \in Gestures : PressStep(g) => Cancelled(g)
       /\ KeyStep => Cancelled("paste")]_vars

\* the handler runs of site g in the history, presses and timer callbacks
SiteLog(g) == SelectSeq(log, LAMBDA r : Head(r.calls).site = g)

IsKeyRun(r) == r.ev.kind = "key"

Count(calls, c) == Cardinality({i \in DOMAIN calls : calls[i] = c})

RECURSIVE IsSecondPress(_, _)
\* run i of site history L is a second press: a press() less than Timeout after a
\* first press, with nothing of the site in between
IsSecondPress(L, i) ==
    /\ i > 1
    /\ IsKeyRun(L[i]) /\ IsKeyRun(L[i - 1])
    /\ ~IsSecondPress(L, i - 1)
    /\ L[i].ev.at - L[i - 1].ev.at < Timeout

IsFirstPress(L, i) == IsKeyRun(L[i]) /\ ~IsSecondPress(L, i)

\* the timer armed by the press at time `at` is pending
TimerArmed(g, at) ==
    /\ \E t \in Pending(timers, g) : t.deadline = at + Timeout
    /\ clock <= at + Timeout

\* C2: at every gesture site, a second press() less than Timeout after a first
\* press hides the message and calls onDoublePress exactly once and never
\* onSinglePress; the timer armed by the first press is cancelled, so no timer
\* callback follows the double press: a timer callback only ever follows a first
\* press.
C2_DoublePress ==
    \A g \in Gestures :
        LET L == SiteLog(g)
        IN  \A i \in DOMAIN L :
                /\ IsSecondPress(L, i) =>
                      /\ Head(L[i].calls) = OnShowMessage(g, FALSE)
                      /\ Count(L[i].calls, OnShowMessage(g, TRUE)) = 0
                      /\ Count(L[i].calls, OnDoublePress(g)) = 1
                      /\ Count(L[i].calls, OnSinglePress(g)) = 0
                      /\ Head(L[i - 1].calls) = OnShowMessage(g, TRUE)
                      /\ i < Len(L) => IsKeyRun(L[i + 1])
                      /\ i = Len(L) => Pending(timers, g) = {}
                /\ ~IsKeyRun(L[i]) => i > 1 /\ IsFirstPress(L, i - 1)

\* a press when the component mounts and a second one 300 ms later, which called
\* onDoublePress
C2_Witness ==
    \E g \in Gestures :
        LET L == SiteLog(g)
        IN  /\ Len(L) >= 2
            /\ IsKeyRun(L[1]) /\ L[1].ev.at = StartClock
            /\ IsKeyRun(L[2]) /\ L[2].ev.at = StartClock + 300
            /\ Count(L[2].calls, OnDoublePress(g)) = 1

\* the sites that pass an onSinglePress to useDoublePress
HasSinglePress(g) == SingleCalls(g, FALSE) # <<>>

\* C3: at every gesture site, a first press shows the message at once and calls
\* neither onDoublePress nor onSinglePress; while no other press follows, its timer
\* stays armed for Timeout after the press; when the timer fires, exactly Timeout
\* after the press, it hides the message first and then calls onSinglePress
\* exactly once (at the site that passes one), never onDoublePress, and no second
\* timer callback follows.
C3_SinglePress ==
    \A g \in Gestures :
        LET L == SiteLog(g)
        IN  \A i \in DOMAIN L :
              IsFirstPress(L, i) =>
                /\ Head(L[i].calls) = OnShowMessage(g, TRUE)
                /\ Count(L[i].calls, OnShowMessage(g, FALSE)) = 0
                /\ Count(L[i].calls, OnDoublePress(g)) = 0
                /\ Count(L[i].calls, OnSinglePress(g)) = 0
                /\ i = Len(L) => TimerArmed(g, L[i].ev.at)
                /\ i < Len(L) /\ ~IsKeyRun(L[i + 1]) =>
                      /\ L[i + 1].ev.at = L[i].ev.at + Timeout
                      /\ Head(L[i + 1].calls) = OnShowMessage(g, FALSE)
                      /\ Count(L[i + 1].calls, OnShowMessage(g, FALSE)) = 1
                      /\ Count(L[i + 1].calls, OnShowMessage(g, TRUE)) = 0
                      /\ Count(L[i + 1].calls, OnDoublePress(g)) = 0
                      /\ Count(L[i + 1].calls, OnSinglePress(g))
                            = IF HasSinglePress(g) THEN 1 ELSE 0
                      /\ i + 1 < Len(L) => IsKeyRun(L[i + 2])
                      /\ i + 1 = Len(L) => Pending(timers, g) = {}

\* one press of ctrl+c on a non-empty text and, Timeout later, its timer callback,
\* which called onSinglePress and cleared the text
C3_Witness ==
    LET L == SiteLog("ctrlC")
    IN  /\ Len(L) = 2
        /\ IsKeyRun(L[1]) /\ ~IsKeyRun(L[2])
        /\ Count(L[2].calls, OnSinglePress("ctrlC")) = 1
        /\ Count(L[2].calls, OnChange(<<>>)) = 1

\* the presses i..i+3 of site history L are four rapid presses
FourRapid(L, i) ==
    /\ i + 3 <= Len(L)
    /\ \A k \in i..(i + 3) : IsKeyRun(L[k])
    /\ \A k \in (i + 1)..(i + 3) : L[k].ev.at - L[k - 1].ev.at < Timeout

RECURSIVE DoublesIn(_, _, _, _)
\* the number of onDoublePress calls of site g in runs i..j of L
DoublesIn(g, L, i, j) ==
    IF i > j THEN 0
    ELSE Count(L[i].calls, OnDoublePress(g)) + DoublesIn(g, L, i + 1, j)

\* C10: once a double press is detected the site's lastPressTime is 0; a press
\* that follows a double press, however soon, is a first press (it shows the
\* message, calls no onDoublePress and arms the timer); and four rapid presses
\* call onDoublePress exactly twice.
C10_ThirdPressIsFirst ==
    \A g \in Gestures :
        LET L == SiteLog(g)
        IN  /\ Len(L) > 0 /\ IsSecondPress(L, Len(L)) => lastPressTime[g] = 0
            /\ \A i \in DOMAIN L :
                  /\ i > 1 /\ IsKeyRun(L[i]) /\ IsSecondPress(L, i - 1) =>
                        /\ Head(L[i].calls) = OnShowMessage(g, TRUE)
                        /\ Count(L[i].calls, OnDoublePress(g)) = 0
                        /\ i = Len(L) => TimerArmed(g, L[i].ev.at)
                  /\ FourRapid(L, i) => DoublesIn(g, L, i, i + 3) = 2

\* four rapid presses of escape, the third less than Timeout after the second
C10_Witness ==
    LET L == SiteLog("escape")
    IN  /\ FourRapid(L, 1)
        /\ L[3].ev.at > L[2].ev.at
        /\ DoublesIn("escape", L, 1, 4) = 2

\* the step is the coalescer's timer callback
PasteTimerStep == ev'.kind = "paste" /\ clock' = clock

RECURSIVE Concat(_)
\* the chunks one after the other, in the order of the sequence
Concat(chunks) ==
    IF chunks = <<>> THEN <<>>
    ELSE Concat(SubSeq(chunks, 1, Len(chunks) - 1)) \o chunks[Len(chunks)]

\* the step left the coalescer alone: its buffer and its timer
CoalescerUntouched ==
    /\ pasteState' = pasteState
    /\ Pending(timers', "paste") = Pending(timers, "paste")

\* the step inserted the chunk into the text at the cursor, as typed input
TypedStep(chunk) ==
    LET at == Max(0, Min(cursorOffset, Len(feedback)))
    IN  /\ feedback' = SubSeq(feedback, 1, at) \o chunk \o SubSeq(feedback, at + 1, Len(feedback))
        /\ cursorOffset' = at + Len(chunk)
        /\ Count(fx', OnChange(feedback')) = 1
        /\ \A i \in DOMAIN fx' : fx'[i].cb # "onPaste"

\* the step appended the chunk to the buffer and armed the only timer for
\* PasteDelay from now, and nothing reached the engine or the host
CoalescedStep ==
    /\ BufferedStep
    /\ \E t \in timers' : Pending(timers', "paste") = {t} /\ t.deadline = clock + PasteDelay
    /\ pasteState'.timeoutId # 0
    /\ fx' = <<>>
    /\ feedback' = feedback /\ cursorOffset' = cursorOffset

ShortStep == KeyStep /\ ev'.input = ShortChunk /\ ~IsBackspaceChunk(ev')

\* C6 (as amended): a chunk of length 5 that arrives while no paste buffer is open
\* is forwarded to the engine as typed input and opens no buffer, so the chunks of
\* a burst of five are typed one by one and no onPaste is called; only when a
\* buffer is already open (opened by a chunk longer than 20 or starting with '/)
\* is the chunk appended, to be flushed in the one onPaste of that buffer.
C6_ShortChunksTyped ==
    /\ [][ShortStep =>
            IF pasteState.chunks = <<>>
            THEN TypedStep(ShortChunk) /\ CoalescerUntouched /\ timers' = {}
            ELSE CoalescedStep]_vars
    /\ [](pasteState.chunks # <<>> =>
            Len(pasteState.chunks[1]) > 20 \/ SubSeq(pasteState.chunks[1], 1, 2) = <<"'", "/">>)

\* five chunks of length 5 arrived BurstGap apart with no buffer open: all 25
\* characters are in the text, the last one typed now, and nothing is buffered
C6_Witness ==
    /\ feedback = Concat([i \in 1..5 |-> ShortChunk])
    /\ clock = StartClock + 4 * BurstGap
    /\ ev.kind = "key" /\ ev.input = ShortChunk /\ ev.at = clock
    /\ Count(fx, OnChange(feedback)) = 1
    /\ pasteState.chunks = <<>> /\ timers = {}

\* C6 as stated: in a burst of chunks of length 5 arriving BurstGap apart, every
\* chunk after the first is buffered for the one onPaste and not typed.
C6_ShortBurstCoalesced ==
    [][ShortStep /\ ev.kind = "key" /\ ev.input = ShortChunk /\ ev.at = clock - BurstGap
          => CoalescedStep]_vars

RuleBuffers(chunk) ==
    \/ Len(chunk) > 20
    \/ pasteState.chunks # <<>>
    \/ Len(chunk) >= 2 /\ chunk[1] = "'" /\ chunk[2] = "/"

BackspaceStep ==
    LET at == Max(0, Min(cursorOffset, Len(feedback)))
    IN  IF at = 0
        THEN feedback' = feedback /\ cursorOffset' = cursorOffset /\ fx' = <<>>
        ELSE /\ feedback' = SubSeq(feedback, 1, at - 1) \o SubSeq(feedback, at + 1, Len(feedback))
             /\ cursorOffset' = at - 1
             /\ fx' = <<SetOffset(at - 1), OnChange(feedback')>>

\* C9: a chunk that signals backspace/delete (the flags, or a literal \b / DEL) is
\* handled as a backspace in the step in which it arrives, also while a paste
\* buffer is open, and the buffer and its timer are left as they were.
C9_EditsBypass ==
    [][KeyStep /\ IsBackspaceChunk(ev') => BackspaceStep /\ CoalescerUntouched]_vars

\* a literal DEL has just removed a character of the text while a paste buffer is
\* open
C9_Witness ==
    /\ ev.kind = "key" /\ ev.input = <<DEL>> /\ ev.at = clock
    /\ fx = <<SetOffset(cursorOffset), OnChange(feedback)>>
    /\ pasteState.chunks # <<>>
    /\ Pending(timers, "paste") # {}

-----------------------------------------------------------------------------
(* The gesture instances are separate *)

\* site g was pressed less than Timeout before now, as the history records it
PressedRecently(g) ==
    \E j \in DOMAIN log :
        /\ IsKeyRun(log[j])
        /\ Head(log[j].calls).site = g
        /\ clock - log[j].ev.at < Timeout

\* the step left the refs and the timer of site h as they were
SiteUntouched(h) ==
    /\ lastPressTime'[h] = lastPressTime[h]
    /\ timeoutRef'[h] = timeoutRef[h]
    /\ Pending(timers', h) = Pending(timers, h)

\* C11: the three gesture sites keep separate lastPressTime and timer state: a
\* press of one site leaves the refs and the timer of the two other sites as they
\* were, and it calls onDoublePress (and with it onExit) only if the same site
\* was pressed less than Timeout before; a press of a different site less than
\* Timeout before never makes it a double press.
C11_SeparateInstances ==
    [][\A g \in Gestures :
          PressStep(g) =>
             /\ \A h \in Gestures \ {g} : SiteUntouched(h)
             /\ ~PressedRecently(g) =>
                   /\ Head(fx') = OnShowMessage(g, TRUE)
                   /\ Count(fx', OnDoublePress(g)) = 0
                   /\ Count(fx', OnExit) = 0
                   /\ ~exited']_vars

\* ctrl+c when the component mounts and ctrl+d on the empty buffer 300 ms later:
\* the second press showed the ctrl+d message, both timers are pending and the
\* process has not exited
C11_Witness ==
    /\ Len(log) = 2
    /\ IsKeyRun(log[1]) /\ log[1].ev.input = <<"c">> /\ log[1].ev.at = StartClock
    /\ IsKeyRun(log[2]) /\ log[2].ev.input = <<"d">> /\ log[2].ev.at = StartClock + 300
    /\ Head(log[2].calls) = OnShowMessage("ctrlD", TRUE)
    /\ feedback = <<>> /\ ~exited
    /\ Pending(timers, "ctrlC") # {} /\ Pending(timers, "ctrlD") # {}

-----------------------------------------------------------------------------
(* The key dispatch alone: useTextInput rendered with any value, offset and   *)
(* flags, and one key event after the other dispatched on it                  *)

MaxDispatchLen == 2     \* every value of up to this many characters is dispatched on

DispatchChars == {"a", BSL, NL}

\* and two longer values: "abc\ndef", and three lines with the longest in the middle
DispatchExamples ==
    {<<"a", "b", "c", NL, "d", "e", "f">>, <<"a", NL, "a", "a", NL, "a">>}

RECURSIVE Texts(_, _)
\* the strings over `chars` of length up to n
Texts(chars, n) ==
    IF n = 0 THEN {<<>>}
    ELSE LET shorter == Texts(chars, n - 1)
         IN  shorter \cup {Append(t, ch) : t \in shorter, ch \in chars}

DispatchProps ==
    {[multiline |-> m, disableCursorMovementForUpDownKeys |-> d, columns |-> 80] :
        m \in BOOLEAN, d \in BOOLEAN}

HomeKey == <<ESC, "[", "H">>
EndKey == <<ESC, "[", "F">>

DispatchEvents ==
    {Event(<<"a">>, Plain), Event(<<DEL>>, Plain), Event(HomeKey, Plain),
     Event(EndKey, Plain), Event(<<CR>>, Key({"return"})),
     Event(<<CR>>, Key({"return", "meta"}))}
    \cup {Event(<<>>, Key({f})) :
            f \in {"backspace", "escape", "tab", "upArrow", "downArrow", "leftArrow",
                   "rightArrow", "pageUp", "pageDown"}}
    \cup {Event(<<>>, Key({"leftArrow", "ctrl"})), Event(<<>>, Key({"rightArrow", "meta"}))}
    \cup {Event(<<c>>, Ctrl) :
            c \in {"a", "b", "c", "d", "e", "f", "h", "k", "l", "n", "p", "u", "w", "z"}}
    \cup {[Event(<<"v">>, Ctrl) EXCEPT !.clip = c] : c \in {"unsupported", "none", "image"}}
    \cup {Event(<<c>>, Meta) : c \in {"b", "f", "d", "z"}}

InitDispatch ==
    /\ clock = StartClock
    /\ feedback \in Texts(DispatchChars, MaxDispatchLen) \cup DispatchExamples
    /\ cursorOffset \in 0..Len(feedback)
    /\ wsOpen = FALSE
    /\ exited = FALSE
    /\ lastPressTime = [g \in Gestures |-> 0]
    /\ timeoutRef = [g \in Gestures |-> 0]
    /\ pasteState = [chunks |-> <<>>, timeoutId |-> 0, totalLength |-> 0]
    /\ timers = {}
    /\ props \in DispatchProps
    /\ session = NoSession
    /\ fx = <<>>
    /\ ev = Step("init")
    /\ log = <<>>

\* the key presses a gesture site: escape, ctrl+c, ctrl+d
IsGestureKey(e) ==
    \/ e.key = Key({"escape"})
    \/ e.key = Ctrl /\ e.input \in {<<"c">>, <<"d">>}

\* while a gesture waits for its second press only gesture keys are followed, and
\* the longer values are moved in and submitted, not edited
DispatchInput(e) ==
    /\ timers # {} => IsGestureKey(e)
    /\ wrappedOnInput(e.input, e.key, e.clip)
    /\ \/ Len(feedback') <= MaxDispatchLen /\ Len(feedback) <= MaxDispatchLen
       \/ feedback' = feedback
    /\ Observed(e)

NextDispatch == \E e \in DispatchEvents : DispatchInput(e)

SpecDispatch == InitDispatch /\ [][NextDispatch]_vars

\* the cursor of the render and what the handler of the key event of the step
\* returned for it
StepCursor == nextCursor(RenderCursor, ev'.input, ev'.key, props, ev'.clip)

\* the handler returned no cursor, or one structurally equal to the input cursor
SameCursor(r) == ~r.has \/ equals(RenderCursor, r.cursor)

IsCommitCall(call) == call.cb \in {"onOffsetChange", "onChange"}

\* the offset and text commits a handler made, in order
Commits(calls) == SelectSeq(calls, IsCommitCall)

\* the commit the two-level check of onInput makes for the cursor n the handler
\* returned
CheckedCommit(c, r) ==
    IF SameCursor(r) THEN <<>>
    ELSE IF r.cursor.text = c.text THEN <<SetOffset(r.cursor.offset)>>
    ELSE <<SetOffset(r.cursor.offset), OnChange(r.cursor.text)>>

IsClearStep == KeyStep /\ ev'.key = Ctrl /\ ev'.input = <<"l">>

\* the commits made past the check: ctrl+l calls setOffset(0) before it returns
\* the empty cursor, and a double press of escape on a non-empty value calls
\* onChange('') and setOffset(0)
DirectCommit ==
    IF IsClearStep THEN <<SetOffset(0)>>
    ELSE IF Count(fx', OnDoublePress("escape")) = 1 /\ feedback # <<>>
    THEN <<OnChange(<<>>), SetOffset(0)>>
    ELSE <<>>

\* C12: the cursor the handler of a key event returns is committed through the
\* two-level check: nothing if it is structurally equal to the input cursor (or
\* the handler returned none), else the offset commit, followed by onChange(text)
\* only if the text changed as well. The only commits made past the check are
\* those of ctrl+l, which calls the offset commit with 0 first, whatever the
\* cursor, and of a double press of escape on a non-empty value, which calls
\* onChange('') and the offset commit with 0 while its cursor is unchanged.
C12_TwoLevelCheck ==
    [][KeyStep => Commits(fx') = DirectCommit \o CheckedCommit(RenderCursor, StepCursor)]_vars

\* the left arrow has just moved the cursor inside a non-empty value: the offset
\* was committed and the text was not
C12_Witness ==
    /\ ev.kind = "key" /\ ev.key = Key({"leftArrow"})
    /\ feedback # <<>>
    /\ fx = <<SetOffset(cursorOffset)>>

\* the statement without the two exceptions: the offset commit only if the
\* resulting cursor differs from the input cursor, onChange only if the text
\* differs as well, and no commit at all when neither changed
C12_CommitOnlyOnChange ==
    [][KeyStep =>
          LET r == StepCursor
          IN  /\ Commits(fx') # <<>> => ~SameCursor(r)
              /\ (\E i \in DOMAIN fx' : fx'[i].cb = "onChange") => r.cursor.text # feedback]_vars

-----------------------------------------------------------------------------
(* Return *)

IsReturnStep ==
    KeyStep /\ ev'.key["return"] /\ ~ev'.key["backspace"] /\ ~ev'.key["delete"]

\* text with s put in at 0-based index `at`
InsertedAt(text, at, s) == SubSeq(text, 1, at) \o s \o SubSeq(text, at + 1, Len(text))

\* C13: Return, with multiline set, offset > 0 and a backslash just before the
\* offset, replaces that backslash by a newline (the text keeps its length, the
\* offset its value) and does not call onSubmit; otherwise, with meta held, it
\* inserts a newline at the offset; otherwise it calls onSubmit exactly once with
\* the whole value and commits neither text nor offset.
C13_Return ==
    [][IsReturnStep =>
          IF props.multiline /\ cursorOffset > 0 /\ feedback[cursorOffset] = BSL
          THEN /\ fx' = <<SetOffset(cursorOffset), OnChange(feedback')>>
               /\ feedback' = [feedback EXCEPT ![cursorOffset] = NL]
               /\ cursorOffset' = cursorOffset
          ELSE IF ev'.key["meta"]
          THEN /\ fx' = <<SetOffset(cursorOffset + 1), OnChange(feedback')>>
               /\ feedback' = InsertedAt(feedback, cursorOffset, <<NL>>)
               /\ cursorOffset' = cursorOffset + 1
          ELSE fx' = <<OnSubmit(feedback)>>]_vars

\* Return, without meta, has just replaced the backslash before the cursor by a
\* newline, in a multiline input
C13_Witness ==
    /\ ev.kind = "key" /\ ev.key = Key({"return"})
    /\ props.multiline
    /\ cursorOffset = 2 /\ feedback = <<"a", NL>>
    /\ fx = <<SetOffset(2), OnChange(<<"a", NL>>)>>

-----------------------------------------------------------------------------
(* Up and down *)

IsUpStep ==
    KeyStep /\ (ev'.key = Key({"upArrow"}) \/ (ev'.key = Ctrl /\ ev'.input = <<"p">>))

IsDownStep ==
    KeyStep /\ (ev'.key = Key({"downArrow"}) \/ (ev'.key = Ctrl /\ ev'.input = <<"n">>))

\* the number of newlines before the offset: the line the offset is on
LineOf(text, offset) == Cardinality({i \in 1..offset : text[i] = NL})

OnFirstLine(text, offset) == \A i \in 1..offset : text[i] # NL
OnLastLine(text, offset) == \A i \in (offset + 1)..Len(text) : text[i] # NL

\* the step committed a move of the cursor by `by` lines and nothing else
MovedLines(by) ==
    /\ fx' = <<SetOffset(cursorOffset')>>
    /\ feedback' = feedback
    /\ cursorOffset' # cursorOffset
    /\ LineOf(feedback, cursorOffset') = LineOf(feedback, cursorOffset) + by

\* the step called the history callback and committed nothing
Deferred(call) ==
    /\ fx' = <<call>>
    /\ feedback' = feedback
    /\ cursorOffset' = cursorOffset

\* C14: with cursor movement enabled, up arrow and ctrl+p call onHistoryUp if and
\* only if the cursor is on the first line, and then commit nothing; otherwise they
\* move the cursor one line up and call no history callback. Down arrow and ctrl+n
\* likewise with onHistoryDown and the last line.
C14_MoveOrHistory ==
    [][~props.disableCursorMovementForUpDownKeys =>
          /\ IsUpStep =>
                IF OnFirstLine(feedback, cursorOffset) THEN Deferred(OnHistoryUp)
                ELSE MovedLines(-1)
          /\ IsDownStep =>
                IF OnLastLine(feedback, cursorOffset) THEN Deferred(OnHistoryDown)
                ELSE MovedLines(1)]_vars

\* the down arrow on the last line of a value of three lines has just called
\* onHistoryDown
C14_Witness ==
    /\ ev.kind = "key" /\ ev.key = Key({"downArrow"})
    /\ ~props.disableCursorMovementForUpDownKeys
    /\ LineOf(feedback, cursorOffset) = 2
    /\ fx = <<OnHistoryDown>>

-----------------------------------------------------------------------------
(* ctrl+a and ctrl+e *)

IsCtrlStep(letter) == KeyStep /\ ev'.key = Ctrl /\ ev'.input = <<letter>>

\* the index just after the last newline before the offset, or 0
LineStart(text, offset) ==
    LET before == {i \in 1..offset : text[i] = NL}
    IN  IF before = {} THEN 0 ELSE CHOOSE i \in before : \A j \in before : j <= i

\* the index of the next newline at or after the offset, or the length of the text
LineEnd(text, offset) ==
    LET after == {i \in (offset + 1)..Len(text) : text[i] = NL}
    IN  IF after = {} THEN Len(text)
        ELSE (CHOOSE i \in after : \A j \in after : i <= j) - 1

\* the step committed the offset `to`, if it differs, and nothing else
MovedTo(to) ==
    /\ fx' = IF to = cursorOffset THEN <<>> ELSE <<SetOffset(to)>>
    /\ cursorOffset' = to
    /\ feedback' = feedback

\* C20: ctrl+a moves the offset to the start of the current line, ctrl+e to its
\* end, and neither changes the text; startOfLine() and endOfLine() are
\* idempotent.
C20_LineStartEnd ==
    [][LET c == RenderCursor
       IN  /\ IsCtrlStep("a") =>
                /\ MovedTo(LineStart(feedback, cursorOffset))
                /\ startOfLine(startOfLine(c)) = startOfLine(c)
           /\ IsCtrlStep("e") =>
                /\ MovedTo(LineEnd(feedback, cursorOffset))
                /\ endOfLine(endOfLine(c)) = endOfLine(c)]_vars

\* ctrl+a has just moved the cursor on the second line of "abc\ndef" to offset 4
C20_Witness ==
    /\ ev.kind = "key" /\ ev.key = Ctrl /\ ev.input = <<"a">>
    /\ feedback = <<"a", "b", "c", NL, "d", "e", "f">>
    /\ fx = <<SetOffset(4)>>
    /\ cursorOffset = 4

-----------------------------------------------------------------------------
(* The Cursor class alone: a cursor over any text, at any offset inside it,   *)
(* and one Cursor operation after the other applied to it. (feedback,         *)
(* cursorOffset) hold the text and the offset of the cursor, ev the operation *)
(* applied last and log the cursor it was applied to.                         *)

MaxCursorLen == 4       \* every text of up to this many characters has a cursor
MaxInsertLen == 2       \* strings of up to this many characters are inserted

CursorChars == {"a", " ", NL}

HelloWorld == <<"h", "e", "l", "l", "o", " ", "w", "o", "r", "l", "d">>
Line1Line2 == <<"l", "i", "n", "e", "1", NL, "l", "i", "n", "e", "2">>

\* and the two texts of the examples
CursorExamples == {HelloWorld, Line1Line2}

CursorTexts == Texts(CursorChars, MaxCursorLen) \cup CursorExamples

InsertStrings == Texts(CursorChars, MaxInsertLen) \ {<<>>}

ThisCursor == Cursor(feedback, props.columns, cursorOffset)

InitCursor ==
    /\ clock = StartClock
    /\ feedback \in CursorTexts
    /\ cursorOffset \in 0..Len(feedback)
    /\ wsOpen = FALSE
    /\ exited = FALSE
    /\ lastPressTime = [g \in Gestures |-> 0]
    /\ timeoutRef = [g \in Gestures |-> 0]
    /\ pasteState = [chunks |-> <<>>, timeoutId |-> 0, totalLength |-> 0]
    /\ timers = {}
    /\ props = AppProps
    /\ session = NoSession
    /\ fx = <<>>
    /\ ev = Step("init")
    /\ log = <<>>

\* the operation `e` applied to the cursor returned `next`; the texts of the
\* examples are edited once, the others within MaxCursorLen
Returned(e, next) ==
    /\ feedback \in CursorTexts
    /\ Len(next.text) <= MaxCursorLen \/ Len(next.text) <= Len(feedback)
    /\ feedback' = next.text
    /\ cursorOffset' = next.offset
    /\ ev' = e
    /\ log' = <<ThisCursor>>
    /\ fx' = <<>>
    /\ UNCHANGED <<clock, wsOpen, exited, lastPressTime, timeoutRef, pasteState, timers,
                   props, session>>

CursorStep(op) == Returned(Step(op), CursorOp(op, ThisCursor))

InsertStep(str) == Returned([Step("insert") EXCEPT !.input = str], insert(ThisCursor, str))

NextCursor ==
    \/ \E op \in CursorOps : CursorStep(op)
    \/ \E str \in InsertStrings : InsertStep(str)

SpecCursor == InitCursor /\ [][NextCursor]_vars

-----------------------------------------------------------------------------
(* up() and down() *)

\* the number of the last line of the text
LastLine(text) == LineOf(text, Len(text))

\* the offset line k of the text starts at: just after its k-th newline
NthLineStart(text, k) ==
    IF k = 0 THEN 0
    ELSE CHOOSE i \in 1..Len(text) : text[i] = NL /\ LineOf(text, i) = k

LineLength(text, k) == LineEnd(text, NthLineStart(text, k)) - NthLineStart(text, k)

\* the cursor on line `to`, in the column of c or at the end of the line if it is
\* shorter
OnLine(c, to) ==
    LET column == c.offset - LineStart(c.text, c.offset)
    IN  Cursor(c.text, c.columns, NthLineStart(c.text, to) + Min(column, LineLength(c.text, to)))

UpReference(c) ==
    LET line == LineOf(c.text, c.offset)
    IN  IF line = 0 THEN c ELSE OnLine(c, line - 1)

DownReference(c) ==
    LET line == LineOf(c.text, c.offset)
    IN  IF line = LastLine(c.text) THEN c ELSE OnLine(c, line + 1)

\* C15: up() and down() return the cursor of the reference: with the line and the
\* column of the offset counted from the newlines before it, the offset of the
\* result is the start of the adjacent line plus the smaller of the column and the
\* length of that line; up() on the first line and down() on the last line return
\* a cursor structurally equal to the input.
C15_UpDown ==
    [][/\ ev'.kind = "up" =>
             /\ equals(ThisCursor', UpReference(ThisCursor))
             /\ OnFirstLine(feedback, cursorOffset) => equals(ThisCursor', ThisCursor)
       /\ ev'.kind = "down" =>
             /\ equals(ThisCursor', DownReference(ThisCursor))
             /\ OnLastLine(feedback, cursorOffset) => equals(ThisCursor', ThisCursor)]_vars

\* down() has just been applied to the cursor at offset 3 of "line1\nline2" and
\* returned offset 9
C15_Witness ==
    /\ ev.kind = "down"
    /\ log = <<Cursor(Line1Line2, props.columns, 3)>>
    /\ feedback = Line1Line2
    /\ cursorOffset = 9

-----------------------------------------------------------------------------
(* Round trips *)

\* C16: for every cursor with offset > 0, left() followed by right() returns a
\* cursor structurally equal to it.
C16_LeftRight ==
    cursorOffset > 0 => equals(right(left(ThisCursor)), ThisCursor)

\* right() has just been applied to the cursor left() returns for this cursor, and
\* returned this cursor
C16_Witness ==
    /\ ev.kind = "right"
    /\ cursorOffset > 0
    /\ log = <<left(ThisCursor)>>
    /\ log[1].offset = cursorOffset - 1

RECURSIVE Backspaces(_, _)
\* n applications of backspace()
Backspaces(c, n) == IF n = 0 THEN c ELSE Backspaces(backspace(c), n - 1)

\* C17: for every cursor and every non-empty string s, insert(s) followed by
\* length(s) applications of backspace() returns the original text and the
\* original offset.
C17_InsertBackspace ==
    \A str \in InsertStrings :
        LET restored == Backspaces(insert(ThisCursor, str), Len(str))
        IN  restored.text = feedback /\ restored.offset = cursorOffset

\* backspace() has just been applied to the cursor insert("a") returns for this
\* cursor, and returned this cursor
C17_Witness ==
    /\ ev.kind = "backspace"
    /\ log = <<insert(ThisCursor, <<"a">>)>>
    /\ Len(log[1].text) = Len(feedback) + 1

\* the cursor at offset o of the text
At(o) == Cursor(feedback, props.columns, o)

\* the word starts > 0 of the text (a non-whitespace character after a whitespace
\* character) and the end of the text
WordStartsAndEnd ==
    {n \in 1..(Len(feedback) - 1) : IsSpace(feedback[n]) /\ ~IsSpace(feedback[n + 1])}
    \cup {Len(feedback)}

NextWordOffsets == {nextWord(At(o)).offset : o \in 0..Len(feedback)}
PrevWordOffsets == {prevWord(At(o)).offset : o \in 0..Len(feedback)}

\* C18: the offsets nextWord() returns are the word starts > 0 and the end of the
\* text, and at each of them prevWord() followed by nextWord() returns the same
\* offset; at every offset prevWord() returns, nextWord() followed by prevWord()
\* returns the same offset.
C18_WordInverses ==
    /\ NextWordOffsets = WordStartsAndEnd
    /\ \A n \in WordStartsAndEnd : nextWord(prevWord(At(n))).offset = n
    /\ \A p \in PrevWordOffsets : prevWord(nextWord(At(p))).offset = p

\* prevWord() has just been applied to the cursor at the end of "hello world" and
\* returned offset 6, where nextWord() leads back to the end
C18_Witness ==
    /\ ev.kind = "prevWord"
    /\ log = <<Cursor(HelloWorld, props.columns, 11)>>
    /\ feedback = HelloWorld
    /\ cursorOffset = 6
    /\ nextWord(ThisCursor).offset = 11

-----------------------------------------------------------------------------
(* Word deletion *)

\* the text without the characters between offsets `from` and `to`
Without(text, from, to) == SubSeq(text, 1, from) \o SubSeq(text, to + 1, Len(text))

\* C19: deleteWordBefore() removes exactly the characters between
\* prevWord().offset and the offset and sets the offset to prevWord().offset;
\* deleteWordAfter() removes exactly the characters between the offset and
\* nextWord().offset and leaves the offset unchanged; the characters outside the
\* span are kept, in order.
C19_DeleteWord ==
    [][/\ ev'.kind = "deleteWordBefore" =>
             LET p == prevWord(ThisCursor).offset
             IN  /\ feedback' = Without(feedback, p, cursorOffset)
                 /\ cursorOffset' = p
       /\ ev'.kind = "deleteWordAfter" =>
             LET n == nextWord(ThisCursor).offset
             IN  /\ feedback' = Without(feedback, cursorOffset, n)
                 /\ cursorOffset' = cursorOffset]_vars

\* deleteWordBefore() has just been applied to the cursor at the end of
\* "hello world" and returned "hello " with offset 6
C19_Witness ==
    /\ ev.kind = "deleteWordBefore"
    /\ log = <<Cursor(HelloWorld, props.columns, 11)>>
    /\ feedback = <<"h", "e", "l", "l", "o", " ">>
    /\ cursorOffset = 6

-----------------------------------------------------------------------------
(* The feedback server alone: one call of getInteractiveFeedback, clients that *)
(* connect, disconnect and send messages, and time                             *)

MaxClients == 2               \* this many clients connect to the server
MaxHeard == 3                 \* and send this many messages in all
ShortFeedbackTimeout == 1000  \* the timeout option, when it is not the default
FeedbackTick == 400           \* time passes in steps of this many ms
MaxFeedbackAdvance == 800     \* for this many ms, and then up to the timeout

FeedbackClients == 1..MaxClients

FeedbackTimeouts == {DefaultFeedbackTimeout, ShortFeedbackTimeout}

JsonMessages == {"{\"interactive_feedback\":\"a\"}", "{\"interactive_feedback\":\"b\"}"}

FeedbackMessages == JsonMessages \cup {"not json"}

InitFeedback ==
    /\ clock = StartClock
    /\ feedback = <<>>
    /\ cursorOffset = 0
    /\ wsOpen = FALSE
    /\ exited = FALSE
    /\ lastPressTime = [g \in Gestures |-> 0]
    /\ timeoutRef = [g \in Gestures |-> 0]
    /\ pasteState = [chunks |-> <<>>, timeoutId |-> 0, totalLength |-> 0]
    /\ timers = {}
    /\ props = AppProps
    /\ \E running \in BOOLEAN :
          \E clients \in SUBSET FeedbackClients :
              /\ ~running => clients = {}
              /\ session = Server(running, clients)
    /\ fx = <<>>
    /\ ev = Step("init")
    /\ log = <<>>

\* time passes while the call is awaited: in short steps at first, then up to the
\* timeout
FeedbackWait(d) ==
    /\ session.phase = "waiting"
    /\ Tick(d)
    /\ d = FeedbackTick => clock' <= StartClock + MaxFeedbackAdvance
    /\ Unobserved

NextFeedback ==
    \/ \E timeout \in FeedbackTimeouts : getInteractiveFeedback(timeout)
    \/ \E t \in timers : FeedbackTimeout(t)
    \/ \E c \in FeedbackClients : ClientConnects(c)
    \/ \E c \in FeedbackClients : ClientDisconnects(c)
    \/ \E c \in FeedbackClients :
          \E message \in FeedbackMessages :
              ClientMessage(c, message) /\ Len(session'.heard) <= MaxHeard
    \/ \E d \in {FeedbackTick, DefaultFeedbackTimeout} : FeedbackWait(d)

SpecFeedback == InitFeedback /\ [][NextFeedback]_vars

\* the messages the call's messageHandler was given that parse as JSON, by their
\* place among the messages the server received
HeardJson ==
    {i \in DOMAIN session.heard :
        session.heard[i].listened /\ session.heard[i].message \in JsonMessages}

FirstHeardJson == session.heard[CHOOSE i \in HeardJson : \A j \in HeardJson : i <= j]

FeedbackTimerPending == \E t \in timers : t.owner = "feedback"

FeedbackDeadline == session.calledAt + session.timeout

TimeoutErrors ==
    {"Client connected but no feedback received",
     "No client connected within the timeout period"}

-----------------------------------------------------------------------------
(* The key dispatch on key events that satisfy several rules at once *)

\* backspace, delete and the backspace bytes together with the flags and chords of
\* the later rules
BackspaceOverlaps ==
    {Event(<<>>, Key({"backspace", f})) : f \in {"return", "escape", "upArrow", "meta", "tab"}}
    \cup {Event(<<>>, Key({"delete", "escape"})), Event(<<"c">>, Key({"backspace", "ctrl"})),
          Event(<<"d">>, Key({"delete", "ctrl"})),
          [Event(<<"v">>, Key({"delete", "ctrl"})) EXCEPT !.clip = "image"],
          Event(<<DEL>>, Key({"return"})), Event(<<DEL>>, Key({"escape"})),
          Event(<<BS>>, Ctrl), Event(<<BS>>, Meta), Event(<<DEL>>, Key({"upArrow"})),
          Event(<<BS>>, Plain)}

\* the flags of two or more of the rules 2 to 10 together
RuleOverlaps ==
    {Event(<<CR>>, Key({"return", f})) : f \in {"escape", "ctrl", "tab", "upArrow"}}
    \cup {Event(<<CR>>, Key({"return", "meta", "escape"})),
          Event(<<>>, Key({"escape", "leftArrow", "ctrl"})),
          Event(<<"c">>, Key({"escape", "ctrl"})),
          Event(<<"b">>, Key({"escape", "meta"})),
          Event(<<"a">>, Key({"rightArrow", "ctrl"})),
          Event(<<"b">>, Key({"rightArrow", "meta"})),
          Event(<<>>, Key({"leftArrow", "meta"})),
          Event(<<"e">>, Key({"ctrl", "pageUp"})),
          Event(<<"a">>, Key({"ctrl", "pageDown"})),
          Event(<<"b">>, Key({"ctrl", "meta"})),
          Event(<<"d">>, Key({"ctrl", "meta"})),
          Event(<<"p">>, Key({"ctrl", "downArrow"})),
          Event(<<"b">>, Key({"pageDown", "meta"})),
          Event(<<"f">>, Key({"pageUp", "meta"})),
          Event(<<"b">>, Key({"meta", "tab"})),
          Event(<<"d">>, Key({"meta", "upArrow"})),
          Event(<<>>, Key({"tab", "upArrow"})),
          Event(<<"a">>, Key({"tab"})),
          Event(<<"a">>, Key({"leftArrow"})),
          Event(<<"a">>, Key({"shift"})),
          Event(<<>>, Key({"shift", "leftArrow"}))}

OverlapEvents == BackspaceOverlaps \cup RuleOverlaps

NextOverlap == \E e \in OverlapEvents : DispatchInput(e)

SpecOverlap == InitDispatch /\ [][NextOverlap]_vars

GesturesUntouched == UNCHANGED <<lastPressTime, timeoutRef, timers>>

\* C22: a key event with the backspace or the delete flag, or whose literal is a
\* backspace byte (\b = BS 0x08, DEL 0x7f), is handled as cursor.backspace(),
\* whatever other flags it has: the only callbacks are the commits of the
\* backspace, and nothing is submitted, no gesture is pressed, no history or
\* image-paste callback is called.
C22_BackspaceFirst ==
    [][KeyStep /\ IsBackspaceChunk(ev') => BackspaceStep /\ GesturesUntouched]_vars

\* a backspace together with return has just removed the character before the
\* cursor, and nothing was submitted
C22_Witness ==
    /\ ev.kind = "key" /\ ev.key = Key({"backspace", "return"})
    /\ fx = <<SetOffset(cursorOffset), OnChange(feedback)>>

\* the key with the flags of the earliest rule it satisfies, in the order return,
\* escape, left/right arrow with ctrl or meta, ctrl, pageDown/pageUp, meta, tab,
\* the plain arrows, and no flag (return keeps meta, which its handler reads)
EarliestRule(key) ==
    CASE key["return"] -> Key({"return"} \cup (IF key["meta"] THEN {"meta"} ELSE {}))
      [] key["escape"] -> Key({"escape"})
      [] key["leftArrow"] /\ (key["ctrl"] \/ key["meta"]) -> Key({"leftArrow", "ctrl"})
      [] key["rightArrow"] /\ (key["ctrl"] \/ key["meta"]) -> Key({"rightArrow", "ctrl"})
      [] key["ctrl"] -> Ctrl
      [] key["pageDown"] -> Key({"pageDown"})
      [] key["pageUp"] -> Key({"pageUp"})
      [] key["meta"] -> Meta
      [] key["tab"] -> Key({"tab"})
      [] key["upArrow"] -> Key({"upArrow"})
      [] key["downArrow"] -> Key({"downArrow"})
      [] key["leftArrow"] -> Key({"leftArrow"})
      [] key["rightArrow"] -> Key({"rightArrow"})
      [] OTHER -> Plain

\* C23: the dispatch is first-match-wins: a key event that satisfies several of
\* the rules 2 to 10 is handled exactly as the key event with the same literal
\* and only the flags of the earliest of them: same callbacks, same text and
\* offset, same gesture pressed.
C23_FirstMatchWins ==
    [][KeyStep /\ ~IsBackspaceChunk(ev') =>
          wrappedOnInput(ev'.input, EarliestRule(ev'.key), ev'.clip)]_vars

\* ctrl+meta+b has just moved the cursor of "aa" one character left from the end,
\* where prevWord() would have gone to 0
C23_Witness ==
    /\ ev.kind = "key" /\ ev.key = Key({"ctrl", "meta"}) /\ ev.input = <<"b">>
    /\ feedback = <<"a", "a">>
    /\ cursorOffset = 1
    /\ fx = <<SetOffset(1)>>

-----------------------------------------------------------------------------
(* ctrl+d and escape on a buffer that is typed into and emptied between presses *)

\* the buffer is empty or holds one character, with the cursor before or after it
GestureTexts == {<<>>, <<"a">>}

GestureEvents ==
    {Event(<<"a">>, Plain), Event(<<>>, Key({"leftArrow"})), Event(<<"d">>, Ctrl),
     Event(<<>>, Key({"escape"}))}

GestureInput(e) ==
    /\ KeyInput(e)
    /\ feedback' \in GestureTexts
    /\ IF IsPress(fx') THEN Traced(e) /\ Len(log') <= MaxDebounceRuns ELSE Observed(e)

NextGesture ==
    \/ \E e \in GestureEvents : GestureInput(e)
    \/ \E t \in timers :
          SinglePressTimeout(t) /\ Traced(Step(t.owner)) /\ Len(log') <= MaxDebounceRuns
    \/ \E d \in {300, 500} :
          Tick(d) /\ clock' <= StartClock + MaxDebounceAdvance /\ Unobserved

SpecGesture == Init /\ [][NextGesture]_vars

\* the step removed the character after the cursor and kept the offset, or did
\* nothing at the end of the text
DelStep ==
    IF cursorOffset >= Len(feedback)
    THEN feedback' = feedback /\ cursorOffset' = cursorOffset /\ fx' = <<>>
    ELSE /\ feedback' = SubSeq(feedback, 1, cursorOffset)
                            \o SubSeq(feedback, cursorOffset + 2, Len(feedback))
         /\ cursorOffset' = cursorOffset
         /\ fx' = <<SetOffset(cursorOffset), OnChange(feedback')>>

\* the step is the timer callback of site g
TimerStep(g) == ev'.kind = g /\ clock' = clock

\* the last thing that happened at site g is a first press less than Timeout ago
FirstPressPending(g) ==
    LET L == SiteLog(g)
    IN  /\ Len(L) > 0
        /\ IsFirstPress(L, Len(L))
        /\ clock - L[Len(L)].ev.at < Timeout

\* C24: ctrl+d on a non-empty buffer is cursor.del() (nothing at the end of the
\* text) and does not press the empty-buffer debouncer; on an empty buffer it
\* presses the debouncer and leaves text and offset alone; on_exit is called
\* only by a ctrl+d on an empty buffer less than Timeout after a first ctrl+d
\* (which, pressing the debouncer, was on an empty buffer too), and never by the
\* debouncer's timer.
C24_CtrlD ==
    [][/\ IsCtrlStep("d") /\ feedback # <<>> => DelStep /\ GesturesUntouched
       /\ IsCtrlStep("d") /\ feedback = <<>> =>
             /\ PressStep("ctrlD")
             /\ feedback' = feedback /\ cursorOffset' = cursorOffset
             /\ Commits(fx') = <<>>
             /\ Count(fx', OnExit) = IF FirstPressPending("ctrlD") THEN 1 ELSE 0
       /\ TimerStep("ctrlD") => Count(fx', OnExit) = 0 /\ ~exited']_vars

\* two ctrl+d on the empty buffer 300 ms apart: the second called on_exit
C24_Witness ==
    LET L == SiteLog("ctrlD")
    IN  /\ Len(L) = 2 /\ Len(log) = 2
        /\ IsKeyRun(L[1]) /\ IsKeyRun(L[2])
        /\ L[2].ev.at = L[1].ev.at + 300
        /\ Count(L[2].calls, OnExit) = 1
        /\ exited /\ feedback = <<>>

IsEscapeStep == KeyStep /\ ev'.key = Key({"escape"})

\* C25: every escape returns the cursor it was given; a first escape shows the
\* "press again to clear" message only when the buffer is non-empty and changes
\* nothing; an escape less than Timeout after a first one hides the message and
\* clears the buffer (on_change(''), offset 0) when the buffer is non-empty at
\* that press, and commits nothing when it is empty; the timer callback of a
\* single escape commits nothing.
C25_Escape ==
    [][/\ IsEscapeStep =>
             LET nonEmpty == feedback # <<>>
             IN  /\ StepCursor.has /\ StepCursor.cursor = RenderCursor
                 /\ IF FirstPressPending("escape")
                    THEN /\ fx' = <<OnShowMessage("escape", FALSE), OnMessage(FALSE, "escape"),
                                    OnDoublePress("escape")>>
                                  \o (IF nonEmpty THEN <<OnChange(<<>>), SetOffset(0)>> ELSE <<>>)
                         /\ feedback' = <<>> /\ cursorOffset' = 0
                    ELSE /\ fx' = <<OnShowMessage("escape", TRUE), OnMessage(nonEmpty, "escape")>>
                         /\ feedback' = feedback /\ cursorOffset' = cursorOffset
       /\ TimerStep("escape") =>
             /\ Commits(fx') = <<>>
             /\ feedback' = feedback /\ cursorOffset' = cursorOffset]_vars

\* an escape on a non-empty buffer and a second one 300 ms later, which cleared the buffer
C25_Witness ==
    LET L == SiteLog("escape")
    IN  /\ Len(L) = 2
        /\ IsKeyRun(L[1]) /\ IsKeyRun(L[2])
        /\ L[2].ev.at = L[1].ev.at + 300
        /\ L[1].calls = <<OnShowMessage("escape", TRUE), OnMessage(TRUE, "escape")>>
        /\ Count(L[2].calls, OnChange(<<>>)) = 1
        /\ feedback = <<>> /\ cursorOffset = 0

-----------------------------------------------------------------------------
(* Line deletion *)

\* the number of newlines of the text
Newlines(text) == Cardinality({i \in DOMAIN text : text[i] = NL})

\* C26: deleteToLineStart() removes exactly the characters from the start of the
\* current line up to the offset and sets the offset to that line start;
\* deleteToLineEnd() removes exactly the characters from the offset up to, not
\* including, the next newline and leaves the offset unchanged; neither removes
\* a newline, and the characters of the other lines are kept, in order.
C26_DeleteToLineStartEnd ==
    [][/\ ev'.kind = "deleteToLineStart" =>
             LET s == LineStart(feedback, cursorOffset)
             IN  /\ feedback' = Without(feedback, s, cursorOffset)
                 /\ cursorOffset' = s
                 /\ Newlines(feedback') = Newlines(feedback)
       /\ ev'.kind = "deleteToLineEnd" =>
             LET e == LineEnd(feedback, cursorOffset)
             IN  /\ feedback' = Without(feedback, cursorOffset, e)
                 /\ cursorOffset' = cursorOffset
                 /\ Newlines(feedback') = Newlines(feedback)]_vars

\* deleteToLineStart() has just been applied to "line1\nline2" at offset 8, in
\* the second line, and removed "li"
C26_Witness ==
    /\ ev.kind = "deleteToLineStart"
    /\ log = <<Cursor(Line1Line2, props.columns, 8)>>
    /\ Len(feedback) = Len(Line1Line2) - 2
    /\ cursorOffset = 6

-----------------------------------------------------------------------------
(* The literal fallback of mapKey: key events without flags *)

HomeSequences == {HomeKey, <<ESC, "[", "1", "~">>}
EndSequences == {EndKey, <<ESC, "[", "4", "~">>}

\* one character, a carriage return, chunks of several characters with carriage
\* returns, the empty literal, an escape sequence that is neither Home nor End,
\* and the Home and End sequences
Literals ==
    {<<"a">>, <<CR>>, <<NL>>, <<"a", CR>>, <<CR, "a", CR>>, <<CR, NL>>, <<>>,
     <<ESC, "[", "2", "~">>, <<DEL>>}
    \cup HomeSequences \cup EndSequences

\* the short values are typed into, every value is moved in
LiteralInput(literal) ==
    /\ wrappedOnInput(literal, Plain, "unsupported")
    /\ Len(feedback) <= MaxDispatchLen \/ feedback' = feedback
    /\ Observed(Event(literal, Plain))

NextLiteral == \E literal \in Literals : LiteralInput(literal)

SpecLiteral == InitDispatch /\ [][NextLiteral]_vars

\* the step inserted the literal at the offset, a newline for each of its carriage
\* returns, and committed the offset after it and the text
InsertedStep(literal) ==
    /\ Len(feedback') = Len(feedback) + Len(literal)
    /\ \A i \in 1..cursorOffset : feedback'[i] = feedback[i]
    /\ \A i \in 1..Len(literal) :
          feedback'[cursorOffset + i] = IF literal[i] = CR THEN NL ELSE literal[i]
    /\ \A i \in (cursorOffset + 1)..Len(feedback) : feedback'[i + Len(literal)] = feedback[i]
    /\ cursorOffset' = cursorOffset + Len(literal)
    /\ fx' = IF literal = <<>> THEN <<>> ELSE <<SetOffset(cursorOffset'), OnChange(feedback')>>

\* C27: a key event with no flag whose literal is neither a Home/End sequence nor
\* a backspace byte inserts the whole literal at the offset, with every \r
\* replaced by \n, and advances the offset by the length of the literal; ESC[H and
\* ESC[1~ move to the start of the line, ESC[F and ESC[4~ to its end, and insert
\* nothing.
C27_LiteralFallback ==
    [][KeyStep /\ ev'.key = Plain =>
          CASE ev'.input \in HomeSequences -> MovedTo(LineStart(feedback, cursorOffset))
            [] ev'.input \in EndSequences -> MovedTo(LineEnd(feedback, cursorOffset))
            [] IsBackspaceInput(ev'.input) -> TRUE
            [] OTHER -> InsertedStep(ev'.input)]_vars

\* the chunk "a\r" has just been typed into "aa" at offset 1
C27_Witness ==
    /\ ev.kind = "key" /\ ev.key = Plain /\ ev.input = <<"a", CR>>
    /\ feedback = <<"a", "a", NL, "a">>
    /\ cursorOffset = 3
    /\ fx = <<SetOffset(3), OnChange(feedback)>>

-----------------------------------------------------------------------------
(* Unmapped keys *)

CtrlTable == {"a", "b", "c", "d", "e", "f", "h", "k", "l", "n", "p", "u", "v", "w"}
MetaTable == {"b", "f", "d"}

\* chords the ctrl and meta tables have no entry for, and tab
UnmappedEvents ==
    {Event(i, Ctrl) : i \in {<<"z">>, <<"g">>, <<"A">>, <<>>, <<"a", "b">>, <<NL>>}}
    \cup {Event(i, Meta) : i \in {<<"z">>, <<"a">>, <<"B">>, <<>>, <<CR>>}}
    \cup {Event(<<TAB>>, Key({"tab"})), Event(<<TAB>>, Key({"tab", "shift"})),
          Event(<<"z">>, Key({"ctrl", "meta"})), Event(<<"z">>, Key({"meta", "tab"}))}

\* keys of every rule of the dispatch: typing, a cursor operation, a callback, a
\* gesture, a callback together with a cursor
MappedEvents ==
    {Event(<<"a">>, Plain), Event(<<>>, Key({"backspace"})), Event(<<>>, Key({"upArrow"})),
     Event(<<CR>>, Key({"return"})), Event(<<>>, Key({"escape"})), Event(<<"l">>, Ctrl),
     Event(<<"b">>, Meta), [Event(<<"v">>, Ctrl) EXCEPT !.clip = "none"]}

NextUnmapped == \E e \in UnmappedEvents \cup MappedEvents : DispatchInput(e)

SpecUnmapped == InitDispatch /\ [][NextUnmapped]_vars

\* the key event reaches the ctrl table or the meta table with a literal the table
\* has no entry for, or reaches the tab rule
IsUnmapped(e) ==
    /\ ~IsBackspaceChunk(e)
    /\ \/ EarliestRule(e.key) = Ctrl /\ e.input \notin {<<c>> : c \in CtrlTable}
       \/ EarliestRule(e.key) = Meta /\ e.input \notin {<<c>> : c \in MetaTable}
       \/ EarliestRule(e.key) = Key({"tab"})

\* the step changed nothing and invoked no callback
NoOpStep ==
    /\ fx' = <<>>
    /\ UNCHANGED <<feedback, cursorOffset, exited, pasteState>>
    /\ GesturesUntouched

\* the handler of the key had one outcome: a cursor within its text or no
\* cursor, and at most one side-effect of its own (a callback or a gesture press)
OneOutcome(r) ==
    /\ r.has \in BOOLEAN
    /\ r.has => r.cursor.offset \in 0..Len(r.cursor.text)
    /\ r.press \in Gestures \cup {NoPress}
    /\ Len(r.calls) + (IF r.press = NoPress THEN 0 ELSE 1) <= 1

-----------------------------------------------------------------------------
(* The columns of a cursor *)

\* a width narrower than the lines of the texts
OtherColumns == {2}

\* the operation of the step, applied to cursor c
StepOp(c) ==
    IF ev'.kind = "insert" THEN insert(c, ev'.input) ELSE CursorOp(ev'.kind, c)

\* C29: the columns of a cursor are never consulted: an operation applied to a
\* cursor with the same text and offset and other columns returns the same text
\* and offset, and every operation returns a cursor with the columns of the
\* cursor it was applied to.
C29_ColumnsIgnored ==
    [][/\ StepOp(ThisCursor).columns = ThisCursor.columns
       /\ \A w \in OtherColumns :
             LET r == StepOp(Cursor(feedback, w, cursorOffset))
             IN  /\ r.text = feedback'
                 /\ r.offset = cursorOffset'
                 /\ r.columns = w]_vars

\* up() has just been applied to "hello world" at offset 7 with 80 columns and
\* stayed, as it does with 2 columns, where a wrapped row would end at 5
C29_Witness ==
    /\ ev.kind = "up"
    /\ log = <<Cursor(HelloWorld, props.columns, 7)>>
    /\ cursorOffset = 7
    /\ up(Cursor(HelloWorld, 2, 7)).offset = 7

-----------------------------------------------------------------------------
(* Cursor.render *)

RECURSIVE Repeat(_, _)
\* String.prototype.repeat
Repeat(s, n) == IF n <= 0 THEN <<>> ELSE s \o Repeat(s, n - 1)

\* the invert argument of render: chalk.inverse (which wraps the text in the
\* inverse-video escape codes), the identity passed when the input has no focus,
\* or none, for which render uses chalk.inverse
Inverts == {"inverse", "identity", "undefined"}

Inverted(invert, s) ==
    IF invert = "identity" THEN s ELSE <<"ESC[7m">> \o s \o <<"ESC[27m">>

\* render(cursorChar, mask, invert): a mask that is undefined or '' is <<>>
render(c, cursorChar, mask, invert) ==
    LET displayText == IF mask # <<>> THEN Repeat(mask, Len(c.text)) ELSE c.text
    IN  IF cursorChar # <<>> /\ c.offset <= Len(displayText)
        THEN Slice(displayText, 0, c.offset) \o Inverted(invert, cursorChar)
                 \o SliceFrom(displayText, c.offset)
        ELSE displayText

\* no mask, a mask of one character, and masks of two characters
Masks == {<<>>, <<"*">>, <<"*", "*">>, <<"x", "y">>}

\* cursorChar: showCursor ? ' ' : ''
CursorGlyphs == {<<" ">>, <<>>}

\* useTextInput renders the cursor of this render
Rendered(cursorChar, mask, invert) ==
    /\ ev' = Step("render")
    /\ log' = <<[cursor |-> ThisCursor, cursorChar |-> cursorChar, mask |-> mask,
                 invert |-> invert,
                 renderedValue |-> render(ThisCursor, cursorChar, mask, invert)]>>
    /\ UNCHANGED <<feedback, cursorOffset, clock, wsOpen, exited, lastPressTime, timeoutRef,
                   pasteState, timers, props, session, fx>>

NextRender ==
    \E cursorChar \in CursorGlyphs, mask \in Masks, invert \in Inverts :
        Rendered(cursorChar, mask, invert)

SpecRender == InitCursor /\ [][NextRender]_vars

\* texts of the same length with other characters
SameLength(text) == {[i \in 1..Len(text) |-> ch] : ch \in {"z", NL}}

\* C30: with a non-empty mask the rendered value is `offset` masks, the glyph,
\* and a mask for each remaining character of the text; a cursor of the same
\* length and offset with other characters renders to the same value; and the
\* cursor is the one that was rendered.
C30_MaskedRender ==
    ev.kind = "render" /\ log[1].mask # <<>> =>
        LET r == log[1]
            glyph == IF r.cursorChar = <<>> THEN <<>> ELSE Inverted(r.invert, r.cursorChar)
        IN  /\ r.renderedValue = Repeat(r.mask, r.cursor.offset) \o glyph
                                    \o Repeat(r.mask, Len(r.cursor.text) - r.cursor.offset)
            /\ \A t \in SameLength(r.cursor.text) :
                  render(Cursor(t, r.cursor.columns, r.cursor.offset), r.cursorChar, r.mask,
                         r.invert) = r.renderedValue
            /\ ThisCursor = r.cursor

\* "aa" with the cursor at its end has just been rendered with the mask "xy": the
\* glyph stands after the first mask, in the middle of the four characters
C30_Witness ==
    /\ ev.kind = "render"
    /\ log[1].cursor = Cursor(<<"a", "a">>, props.columns, 2)
    /\ log[1].mask = <<"x", "y">> /\ log[1].cursorChar = <<" ">> /\ log[1].invert = "identity"
    /\ log[1].renderedValue = <<"x", "y", " ", "x", "y">>

-----------------------------------------------------------------------------
(* The boundary of the double press *)

\* the step called onDoublePress of site g
DoubleStep(g) == Count(fx', OnDoublePress(g)) > 0

\* the last run of site g was its timer callback
TimerFiredLast(g) ==
    LET L == SiteLog(g)
    IN  Len(L) > 0 /\ ~IsKeyRun(L[Len(L)])

\* the last run of site g was a first press Timeout or more before now
FirstPressExpired(g) ==
    LET L == SiteLog(g)
    IN  /\ Len(L) > 0
        /\ IsFirstPress(L, Len(L))
        /\ clock - L[Len(L)].ev.at >= Timeout

\* C31: a press() calls onDoublePress exactly when now - lastPressTime < Timeout,
\* strictly; a press Timeout or more after the previous first press, or after
\* the timer callback of that press ran, is a first press: it shows the message,
\* arms the timer and calls no onDoublePress.
C31_StrictBoundary ==
    [][\A g \in Gestures :
          PressStep(g) =>
             /\ DoubleStep(g) <=> clock - lastPressTime[g] < Timeout
             /\ TimerFiredLast(g) \/ FirstPressExpired(g) =>
                   /\ ~DoubleStep(g)
                   /\ Head(fx') = OnShowMessage(g, TRUE)
                   /\ lastPressTime'[g] = clock
                   /\ \E t \in Pending(timers', g) : t.deadline = clock + Timeout]_vars

\* a press of escape and a second one exactly Timeout later, before the timer
\* callback ran: both showed the message, neither called onDoublePress
C31_Witness ==
    LET L == SiteLog("escape")
    IN  /\ Len(L) = 2
        /\ IsKeyRun(L[1]) /\ IsKeyRun(L[2])
        /\ L[2].ev.at = L[1].ev.at + Timeout
        /\ Head(L[2].calls) = OnShowMessage("escape", TRUE)
        /\ Count(L[2].calls, OnDoublePress("escape")) = 0
        /\ TimerArmed("escape", L[2].ev.at)

-----------------------------------------------------------------------------
(* A debouncer pressed for the first time, at any clock value *)

MaxFreshRuns == 2       \* SpecFresh follows this many presses and timer callbacks

\* Date.now() when the component mounts: below, at and above the timeout
FreshClocks == {0, 1, 799, 800, 801}

InitFresh ==
    /\ clock \in FreshClocks
    /\ feedback = <<>>
    /\ cursorOffset = 0
    /\ wsOpen = FALSE
    /\ exited = FALSE
    /\ lastPressTime = [g \in Gestures |-> 0]
    /\ timeoutRef = [g \in Gestures |-> 0]
    /\ pasteState = [chunks |-> <<>>, timeoutId |-> 0, totalLength |-> 0]
    /\ timers = {}
    /\ props = AppProps
    /\ session = NoSession
    /\ fx = <<>>
    /\ ev = Step("init")
    /\ log = <<>>

FreshInput(e) == DebounceInput(e) /\ Len(log') <= MaxFreshRuns

NextFresh ==
    \/ \E e \in DebounceEvents : FreshInput(e)
    \/ \E t \in timers :
          SinglePressTimeout(t) /\ Traced(Step(t.owner)) /\ Len(log') <= MaxFreshRuns
    \/ \E d \in {300, 500} :
          Tick(d) /\ clock' <= StartClock + MaxDebounceAdvance /\ Unobserved

SpecFresh == InitFresh /\ [][NextFresh]_vars

-----------------------------------------------------------------------------
(* The visibility a debouncer reports *)

RECURSIVE AllCalls(_)
\* the callbacks of the runs, in the order they were invoked
AllCalls(runs) == IF runs = <<>> THEN <<>> ELSE Head(runs).calls \o AllCalls(Tail(runs))

\* the arguments of the onShowMessage calls of site g so far
Shows(g) ==
    LET calls == SelectSeq(AllCalls(log), LAMBDA c : c.cb = "onShowMessage" /\ c.site = g)
    IN  [i \in DOMAIN calls |-> calls[i].show]

\* the visibility site g reported last; nothing is visible before the first report
Visible(g) == LET S == Shows(g) IN S # <<>> /\ S[Len(S)]

\* C33: at every site the visibility reported last through onShowMessage is true
\* exactly when the timer of the site is pending; and an onShowMessage(true) is
\* followed by at most one onShowMessage(false) before the next
\* onShowMessage(true): a message is hidden once, by the double press or by the
\* timer callback, whose timer is pending for as long as the message shows.
C33_VisibleIffPending ==
    \A g \in Gestures :
        /\ Visible(g) <=> Pending(timers, g) # {}
        /\ Visible(g) => \E t \in Pending(timers, g) : t.deadline >= clock
        /\ LET S == Shows(g)
           IN  \A i \in DOMAIN S : S[i] /\ i + 2 <= Len(S) => S[i + 1] \/ S[i + 2]

\* escape was pressed, its timer callback hid the message, and a second press
\* shows it again with a new timer pending
C33_Witness ==
    /\ Shows("escape") = <<TRUE, FALSE, TRUE>>
    /\ Len(SiteLog("escape")) = 3 /\ ~IsKeyRun(SiteLog("escape")[2])
    /\ Pending(timers, "escape") # {}
    /\ Pending(timers, "ctrlC") = {} /\ ~Visible("ctrlC")

-----------------------------------------------------------------------------
(* ctrl+c on a buffer that changes before the timer fires *)

InterruptEvents ==
    {Event(<<"a">>, Plain), Event(<<>>, Key({"backspace"})), Event(<<"c">>, Ctrl)}

NextInterrupt ==
    \/ \E e \in InterruptEvents : GestureInput(e)
    \/ \E t \in timers :
          SinglePressTimeout(t) /\ Traced(Step(t.owner)) /\ Len(log') <= MaxDebounceRuns
    \/ \E d \in {300, 500} :
          Tick(d) /\ clock' <= StartClock + MaxDebounceAdvance /\ Unobserved

SpecInterrupt == Init /\ [][NextInterrupt]_vars

\* C34: a first ctrl+c arms a timer that holds whether the buffer is non-empty at
\* the press; key events other than ctrl+c leave that timer pending as it is; and
\* when it fires, its callback hides the message, calls onSinglePress, and
\* clears the buffer (on_change(''), offset 0, on_history_reset) exactly when
\* the buffer was non-empty at the press, whatever it holds when the timer
\* fires.
C34_ClearsWhatWasPressed ==
    [][/\ PressStep("ctrlC") /\ ~DoubleStep("ctrlC") =>
             \E t \in timers' :
                /\ Pending(timers', "ctrlC") = {t}
                /\ t.deadline = clock + Timeout
                /\ t.nonEmpty <=> feedback # <<>>
       /\ KeyStep /\ ~IsCtrlStep("c") =>
             Pending(timers', "ctrlC") = Pending(timers, "ctrlC")
       /\ TimerStep("ctrlC") =>
             \E t \in Pending(timers, "ctrlC") :
                /\ clock = t.deadline
                /\ Pending(timers', "ctrlC") = {}
                /\ fx' = <<OnShowMessage("ctrlC", FALSE), OnExitMessage(FALSE, "ctrlC"),
                           OnSinglePress("ctrlC")>>
                         \o (IF t.nonEmpty
                             THEN <<OnChange(<<>>), SetOffset(0), OnHistoryReset>>
                             ELSE <<>>)
                /\ feedback' = IF t.nonEmpty THEN <<>> ELSE feedback
                /\ cursorOffset' = IF t.nonEmpty THEN 0 ELSE cursorOffset]_vars

\* ctrl+c was pressed on the empty buffer, "a" was typed, and the timer callback
\* ran: it called onSinglePress and left the buffer
C34_Witness ==
    /\ ev.kind = "ctrlC"
    /\ Len(log) = 2 /\ IsKeyRun(log[1]) /\ log[2].ev.at = log[1].ev.at + Timeout
    /\ fx = <<OnShowMessage("ctrlC", FALSE), OnExitMessage(FALSE, "ctrlC"),
              OnSinglePress("ctrlC")>>
    /\ feedback = <<"a">>

-----------------------------------------------------------------------------
(* Keys that arrive while the paste buffer is open *)

MaxAbsorbed == 3   \* chunks held by the paste buffer under SpecAbsorb

AbsorbEvents ==
    {Event(Chunk25, Plain), Event(<<"a">>, Plain), Event(<<CR>>, Key({"return"})),
     Event(<<>>, Key({"escape"})), Event(<<"c">>, Ctrl), Event(<<>>, Key({"upArrow"}))}

AbsorbInput(e) ==
    /\ wrappedOnInput(e.input, e.key, e.clip)
    /\ feedback' \in GestureTexts
    /\ Len(pasteState'.chunks) <= MaxAbsorbed

NextAbsorb ==
    \/ \E e \in AbsorbEvents : AbsorbInput(e) /\ Observed(e)
    \/ \E t \in timers : PasteTimeout(t) /\ Observed(Step(t.owner))
    \/ \E d \in {BurstGap, PasteDelay} :
          Tick(d) /\ clock' <= StartClock + MaxPasteAdvance /\ Unobserved

SpecAbsorb == Init /\ [][NextAbsorb]_vars

\* the step left the text, the offset, the exit flag and the gesture debouncers
\* (their refs and their timers) as they were
EngineUntouched ==
    /\ UNCHANGED <<feedback, cursorOffset, exited, lastPressTime, timeoutRef>>
    /\ \A g \in Gestures : Pending(timers', g) = Pending(timers, g)

\* C35: a chunk that does not signal backspace/delete and arrives while a paste
\* buffer is open is appended to the buffer whatever its flags (return, escape,
\* ctrl, arrows); appending a chunk calls no callback at all, the flush calls
\* onPaste once with the chunks joined and nothing else, and neither changes the
\* text, the offset, the exit flag or the gesture debouncers.
C35_BufferedNeverDispatched ==
    [][/\ KeyStep /\ pasteState.timeoutId # 0 /\ ~IsBackspaceChunk(ev') => BufferedStep
       /\ BufferedStep => fx' = <<>> /\ EngineUntouched
       /\ PasteTimerStep =>
             /\ fx' = <<OnPaste(Concat(pasteState.chunks))>>
             /\ EngineUntouched]_vars

\* the flush has just delivered a long chunk, an Enter and a ctrl+c as one paste;
\* the text typed before the buffer opened is as it was and the app has not exited
C35_Witness ==
    /\ ev.kind = "paste"
    /\ fx = <<OnPaste(Chunk25 \o <<CR>> \o <<"c">>)>>
    /\ feedback = <<"a">> /\ cursorOffset = 1 /\ ~exited
    /\ \A g \in Gestures : lastPressTime[g] = 0

-----------------------------------------------------------------------------
(* Dispatch against the cursor model, with the host connected *)

\* any value and in-range offset, and the pair the host is left with after it
\* submitted /d1: the text is cleared and the offset is not
InitRefine ==
    /\ clock = StartClock
    /\ feedback \in Texts(DispatchChars, MaxDispatchLen) \cup DispatchExamples
    /\ cursorOffset \in 0..Len(feedback) \cup (IF feedback = <<>> THEN {Len(DeleteCommand)} ELSE {})
    /\ wsOpen = TRUE
    /\ exited = FALSE
    /\ lastPressTime = [g \in Gestures |-> 0]
    /\ timeoutRef = [g \in Gestures |-> 0]
    /\ pasteState = [chunks |-> <<>>, timeoutId |-> 0, totalLength |-> 0]
    /\ timers = {}
    /\ props \in DispatchProps
    /\ session = NoSession
    /\ fx = <<>>
    /\ ev = Step("init")
    /\ log = <<>>

SpecRefine == InitRefine /\ [][NextDispatch]_vars

\* the host's pair as the next render sees it
View == fromText(feedback, props.columns, cursorOffset)

\* what the Cursor operation of the key event of the step makes of the cursor of
\* the render: the cursor the handler returned, or the same cursor if it
\* returned none
Folded == IF StepCursor.has THEN StepCursor.cursor ELSE RenderCursor

\* the step called the host's submit while the socket was open
SubmitStep == KeyStep /\ wsOpen /\ \E i \in DOMAIN fx' : fx'[i].cb = "onSubmit"

\* the step was the second press of escape on a non-empty value
EscapeClearStep == KeyStep /\ DoubleStep("escape") /\ feedback # <<>>

-----------------------------------------------------------------------------
(* The pair the host owns *)

\* C37: in every state of the App the offset it holds is at most the length of
\* the text it holds, after any sequence of key events, submits (slash commands
\* included), summary messages and gesture callbacks.
C37_HostPairConsistent == cursorOffset <= Len(feedback)

\* the host has submitted /d1 while connected: it cleared the text and kept the
\* offset the command was typed to
C37_Witness ==
    /\ wsOpen /\ ~exited
    /\ feedback = <<>>
    /\ cursorOffset = Len(DeleteCommand)

-----------------------------------------------------------------------------
(* Clients that connect while a call is pending *)

LastHeard(s) == s.heard[Len(s.heard)]

\* C38: while a call of getInteractiveFeedback is pending, a client that connects
\* is sent the summary and gets the call's message handler, and a message of a
\* connected client that parses as JSON resolves the call, whether or not other
\* clients were connected when the call started.
C38_LateClientServed ==
    [][session.phase = "waiting" =>
          /\ \A c \in session'.clients \ session.clients : c \in session'.listening
          /\ Len(session'.heard) = Len(session.heard) + 1
                /\ LastHeard(session').message \in JsonMessages
             => session'.phase = "resolved"]_vars

\* a call that found a client connected has timed out although a client that
\* connected after the call started sent valid JSON before the deadline
C38_Witness ==
    /\ session.phase = "rejected"
    /\ session.result = "Client connected but no feedback received"
    /\ \E i \in DOMAIN session.heard :
          /\ session.heard[i].message \in JsonMessages
          /\ ~session.heard[i].listened
          /\ session.calledAt < session.heard[i].at
          /\ session.heard[i].at < FeedbackDeadline

-----------------------------------------------------------------------------
(* App: the websocket connection and its reconnection. In SpecReconnect the    *)
(* variable session holds the connection state of the App: the sockets that    *)
(* still have the App's listeners, the state value ws, the two refs and the    *)
(* reconnect fields of the App state. An effect runs in the step of the        *)
(* handler whose setState caused its render.                                   *)

ReconnectDelay == 5000
MaxReconnectAttempts == 10
CloseReconnectLimit == 100

MaxReconnectAdvance == 35000   \* SpecReconnect follows the run for this many ms
ReconnectTick == 1000          \* in steps of this many ms, or up to the next timer

Socket(id, state) == [id |-> id, state |-> state]

\* an effect that arms the timer whenever isReconnecting is set
reconnectDue_whileReconnecting(conn) == conn.isReconnecting

\* state.isReconnecting && state.reconnectAttempts <= 10
reconnectDue(conn) ==
    conn.isReconnecting /\ conn.reconnectAttempts <= MaxReconnectAttempts

\* the App after the mount effect called createConnection()
Mounted ==
    [phase |-> "client", sockets |-> {Socket(1, "connecting")}, ws |-> 1,
     isConnecting |-> TRUE, isReconnecting |-> FALSE, reconnectAttempts |-> 0,
     reconnectTimeoutRef |-> 0, timerWs |-> 0, made |-> 1]

\* createConnection() in a render whose state value ws is `ws`: removeAllListeners
\* and close on the old socket, new WebSocket(wsUrl), setWs, isReconnecting: false
createConnection(conn, ws) ==
    IF conn.isConnecting THEN conn
    ELSE [conn EXCEPT !.isConnecting = TRUE,
                      !.sockets = {s \in @ : s.id # ws}
                                  \cup {Socket(conn.made + 1, "connecting")},
                      !.ws = conn.made + 1,
                      !.made = @ + 1,
                      !.isReconnecting = FALSE]

\* websocket.on('open')
onOpen(conn, s) ==
    [conn EXCEPT !.sockets = (@ \ {s}) \cup {Socket(s.id, "open")},
                 !.isConnecting = FALSE,
                 !.isReconnecting = FALSE,
                 !.reconnectAttempts = 0]

\* websocket.on('error'): the socket is CLOSING and emits close next
onError(conn, s) ==
    [conn EXCEPT !.sockets = (@ \ {s}) \cup {Socket(s.id, "errored")},
                 !.isConnecting = FALSE,
                 !.isReconnecting = conn.reconnectAttempts + 1 <= MaxReconnectAttempts,
                 !.reconnectAttempts = @ + 1]

\* websocket.on('close')
onClose(conn, s) ==
    [conn EXCEPT !.sockets = @ \ {s},
                 !.isConnecting = FALSE,
                 !.isReconnecting = conn.reconnectAttempts + 1 <= CloseReconnectLimit,
                 !.reconnectAttempts = @ + 1]

\* the reconnect effect, deps [isReconnecting, reconnectAttempts]: if they changed
\* from the render `before` to the render `after`, the cleanup of the old effect
\* and then the effect, whose timer callback closes over the ws of `after`
reconnectEffect(before, after, pending) ==
    IF /\ before.isReconnecting = after.isReconnecting
       /\ before.reconnectAttempts = after.reconnectAttempts
    THEN [conn |-> after, pending |-> pending]
    ELSE LET cleared == IF after.reconnectTimeoutRef # 0
                        THEN clearTimeout(pending, "reconnect", after.reconnectTimeoutRef)
                        ELSE pending
             used == {t.id : t \in Pending(cleared, "reconnect")}
                     \cup {after.reconnectTimeoutRef}
             id == CHOOSE n \in 1..(Cardinality(used) + 1) : n \notin used
         IN  IF reconnectDue(after)
             THEN [conn |-> [after EXCEPT !.reconnectTimeoutRef = id, !.timerWs = after.ws],
                   pending |-> cleared
                               \cup {Timer(id, "reconnect", clock + ReconnectDelay, FALSE)}]
             ELSE [conn |-> after, pending |-> cleared]

\* the App re-rendered with connection state `after`, `pending` being the timers
\* its handler left
Reconnected(kind, after, pending) ==
    LET r == reconnectEffect(session, after, pending)
    IN  /\ session' = r.conn
        /\ timers' = r.pending
        /\ wsOpen' = (Socket(r.conn.ws, "open") \in r.conn.sockets)
        /\ fx' = <<>>
        /\ ev' = Ran(Step(kind))
        /\ UNCHANGED <<clock, feedback, cursorOffset, exited, lastPressTime, timeoutRef,
                       pasteState, props, log>>

\* a socket has emitted error and emits close in the same turn
CloseDue == \E s \in session.sockets : s.state = "errored"

\* the callback of the reconnect timer
ReconnectTimeout(t) ==
    /\ ~CloseDue
    /\ t \in timers /\ t.owner = "reconnect"
    /\ clock >= t.deadline
    /\ Reconnected("reconnect", createConnection(session, session.timerWs), timers \ {t})

SocketOpen(s) ==
    /\ ~CloseDue
    /\ s \in session.sockets /\ s.state = "connecting"
    /\ Reconnected("open", onOpen(session, s), timers)

\* the attempt fails, or the open connection breaks
SocketError(s) ==
    /\ ~CloseDue
    /\ s \in session.sockets /\ s.state \in {"connecting", "open"}
    /\ Reconnected("error", onError(session, s), timers)

\* close after error, or the server closes the open connection
SocketClose(s) ==
    /\ s \in session.sockets /\ s.state \in {"errored", "open"}
    /\ Reconnected("close", onClose(session, s), timers)

InitReconnect ==
    /\ clock = StartClock
    /\ feedback = <<>>
    /\ cursorOffset = 0
    /\ wsOpen = FALSE
    /\ exited = FALSE
    /\ lastPressTime = [g \in Gestures |-> 0]
    /\ timeoutRef = [g \in Gestures |-> 0]
    /\ pasteState = [chunks |-> <<>>, timeoutId |-> 0, totalLength |-> 0]
    /\ timers = {}
    /\ props = AppProps
    /\ session = Mounted
    /\ fx = <<>>
    /\ ev = Step("init")
    /\ log = <<>>

NextReconnect ==
    \/ \E t \in timers : ReconnectTimeout(t)
    \/ \E s \in session.sockets : SocketOpen(s)
    \/ \E s \in session.sockets : SocketError(s)
    \/ \E s \in session.sockets : SocketClose(s)
    \/ \E d \in {ReconnectTick, ReconnectDelay} :
          /\ ~CloseDue
          /\ Tick(d) /\ clock' <= StartClock + MaxReconnectAdvance
          /\ Unobserved

SpecReconnect == InitReconnect /\ [][NextReconnect]_vars

InFlight(conn) == {s \in conn.sockets : s.state = "connecting"}

-----------------------------------------------------------------------------
(* The paste buffer *)

\* C40: in every reachable state totalLength is the sum of the lengths of the
\* buffered chunks, and the 50 ms timer is pending, and its handle held, if and
\* only if the chunk list is not empty; the timer callback empties the list,
\* zeroes totalLength and drops the handle in one step.
C40_PasteBufferInvariant ==
    /\ pasteState.totalLength = SumLen(pasteState.chunks)
    /\ pasteState.totalLength = Len(Concat(pasteState.chunks))
    /\ Pending(timers, "paste") # {} <=> pasteState.chunks # <<>>
    /\ pasteState.timeoutId # 0 <=> pasteState.chunks # <<>>
    /\ ev.kind = "paste" /\ ev.at = clock =>
          pasteState.chunks = <<>> /\ pasteState.totalLength = 0

\* a long chunk and a short one are buffered: 30 characters, one timer pending
C40_Witness ==
    /\ pasteState.chunks = <<Chunk25, ShortChunk>>
    /\ pasteState.totalLength = 30
    /\ Cardinality(Pending(timers, "paste")) = 1

====
